---- MODULE Spec2Model ----
(***************************************************************************)
(* State machine of the SimpleNFT collection contract (ERC721 + Ownable +  *)
(* ERC-4906) and of the operations a deployed collection offers.           *)
(*                                                                         *)
(* One action is one call of a contract function.  A call made by an       *)
(* externally owned account is one atomic step.  A call that hands a token *)
(* to a contract address (mint, safeTransferFrom) stops inside the         *)
(* recipient's onERC721Received callback: the frame on `stack` holds the   *)
(* storage to restore if the callback refuses the token, and while the     *)
(* frame is open the recipient may call back into the collection.          *)
(***************************************************************************)
EXTENDS Integers, Sequences, FiniteSets, Bags, TLC

VARIABLES
    _owner,              \* Ownable._owner
    _nextTokenId,        \* SimpleNFT._nextTokenId
    _baseTokenURI,       \* SimpleNFT._baseTokenURI
    _metadataFrozen,     \* SimpleNFT._metadataFrozen
    _owners,             \* ERC721._owners            tokenId -> address
    _balances,           \* ERC721._balances          address -> count
    _tokenApprovals,     \* ERC721._tokenApprovals    tokenId -> address
    _operatorApprovals,  \* ERC721._operatorApprovals set of <<owner, operator>>
    stack,               \* open onERC721Received callbacks, outermost first
    logs,                \* events of the transaction in progress (or last one)
    last,                \* the call that finished last, with its outcome
    minted,              \* history: IDs handed out by mints in effect, in call order
    store,               \* asset store: the objects of the storage bucket
    now,                 \* Date.now() of the server, in milliseconds
    response,            \* the last request to the server, with its response
    served,              \* history: the images served so far: token ID, time, image
    latest,              \* history: under each address, the object written last
    collection,          \* React state of the collection page and of its NFT cards
    home,                \* React state of the home page
    tasks,               \* the event handlers of the pages that are waiting on an await
    wallet,              \* the user's wallet: its chain, the collection it deployed
    sent                 \* history: the deployments the wallet has submitted

vars == <<_owner, _nextTokenId, _baseTokenURI, _metadataFrozen, _owners, _balances,
          _tokenApprovals, _operatorApprovals, stack, logs, last, minted,
          store, now, response, served, latest,
          collection, home, tasks, wallet, sent>>

\* the state of the web server and of its asset store
server == <<store, now, response, served, latest>>

\* the state of the pages in the browser and of the wallet
browser == <<collection, home, tasks, wallet, sent>>

storage == <<_owner, _nextTokenId, _baseTokenURI, _metadataFrozen, _owners, _balances,
             _tokenApprovals, _operatorApprovals>>

-----------------------------------------------------------------------------
(* Bounds of the model *)

\* mint is offered while _nextTokenId <= MaxTokens
MaxTokens == 2
\* image requests take the first MaxLongIds token IDs of LongTokenIds
MaxLongIds == 6
\* collection names are the first MaxNames names of SampleNames
MaxNames == 7
\* the gallery of the collection page shows the tokens 1 .. MaxCards
MaxCards == 1
\* at most MaxTasks handlers of a page wait on an await at once
MaxTasks == 2
\* at most MaxDepth callbacks are open at once
MaxDepth == 2
\* approve and setApprovalForAll(.., true) are offered while fewer than
\* MaxApprovals approvals are in place
MaxApprovals == 1
\* mints of the URI specification (token IDs with two decimal digits)
MaxMintsURI == 11
\* objects in the asset store
MaxAssets == 2
\* steps of the server's clock
MaxTicks == 1

-----------------------------------------------------------------------------
(* Addresses *)

ZeroAddress == 0
\* externally owned accounts: no code, never called back
EOA == {1}
\* addresses with code: _safeMint and safeTransferFrom call their onERC721Received
CONTRACT == {2}
Addr == EOA \cup CONTRACT

\* base URIs handed to setBaseURI
URIS == {"", "https://x/"}

\* token IDs handed to the functions that take one
IdArgs == 0 .. MaxTokens

\* recipients of transfers
Recipients == Addr \cup {ZeroAddress}

\* addresses handed to approve and setApprovalForAll
Spenders == {ZeroAddress, 2}

-----------------------------------------------------------------------------
(* Solidity mappings: a key never written reads as zero *)

EmptyMap == [k \in {} |-> 0]

Read(m, k) == IF k \in DOMAIN m THEN m[k] ELSE 0

Write(m, k, v) ==
    IF v = 0
    THEN [x \in (DOMAIN m) \ {k} |-> m[x]]
    ELSE [x \in (DOMAIN m) \cup {k} |-> IF x = k THEN v ELSE m[x]]

-----------------------------------------------------------------------------
(* Outcomes of a call *)

NoError == [name |-> "", args |-> <<>>]
\* the call is inside the recipient's callback and has not returned yet
Pending == [name |-> "(pending)", args |-> <<>>]
Revert(n, a) == [name |-> n, args |-> a]

Outcome(op, caller, a, e, r) ==
    [op |-> op, caller |-> caller, args |-> a, err |-> e, ret |-> r]

-----------------------------------------------------------------------------
(* Events *)

Event(n, a) == [ev |-> n, args |-> a]

-----------------------------------------------------------------------------
(* Strings.toString: the decimal digits of a uint256, most significant first *)

Digit(d) ==
    CASE d = 0 -> "0" [] d = 1 -> "1" [] d = 2 -> "2" [] d = 3 -> "3" [] d = 4 -> "4"
      [] d = 5 -> "5" [] d = 6 -> "6" [] d = 7 -> "7" [] d = 8 -> "8" [] d = 9 -> "9"

\* a toString that writes the least significant digit first
RECURSIVE toStringReversed(_)
toStringReversed(value) ==
    IF value < 10 THEN Digit(value)
    ELSE Digit(value % 10) \o toStringReversed(value \div 10)

RECURSIVE toString(_)
toString(value) ==
    IF value < 10 THEN Digit(value)
    ELSE toString(value \div 10) \o Digit(value % 10)

-----------------------------------------------------------------------------
(* Views *)

\* Ownable.owner()
owner == _owner

\* ERC721._ownerOf
_ownerOf(tokenId) == Read(_owners, tokenId)

\* a _requireOwned that accepts every token ID
_requireOwnedUnchecked(tokenId) == NoError

\* ERC721._requireOwned: reverts for a token without owner
_requireOwned(tokenId) ==
    IF _ownerOf(tokenId) = ZeroAddress
    THEN Revert("ERC721NonexistentToken", <<tokenId>>)
    ELSE NoError

\* ERC721.ownerOf
ownerOf(tokenId) ==
    [err |-> _requireOwned(tokenId), ret |-> _ownerOf(tokenId)]

\* ERC721.balanceOf
balanceOf(account) ==
    IF account = ZeroAddress
    THEN [err |-> Revert("ERC721InvalidOwner", <<ZeroAddress>>), ret |-> 0]
    ELSE [err |-> NoError, ret |-> Read(_balances, account)]

\* SimpleNFT._baseURI
_baseURI == _baseTokenURI

\* ERC721.tokenURI: the empty string when the base URI is empty
tokenURI(tokenId) ==
    IF _requireOwned(tokenId) # NoError
    THEN [err |-> _requireOwned(tokenId), ret |-> ""]
    ELSE [err |-> NoError,
          ret |-> IF Len(_baseURI) > 0 THEN _baseURI \o toString(tokenId) ELSE ""]

\* a totalSupply that forgets that the counter starts at 1
totalSupplyOffByOne == _nextTokenId

\* SimpleNFT.totalSupply
totalSupply == _nextTokenId - 1

\* SimpleNFT.isMetadataFrozen
isMetadataFrozen == _metadataFrozen

\* ERC721.getApproved (the stored approval; _getApproved)
_getApproved(tokenId) == Read(_tokenApprovals, tokenId)

\* ERC721.isApprovedForAll
isApprovedForAll(tokenOwner, operator) == <<tokenOwner, operator>> \in _operatorApprovals

\* an _isAuthorized that lets every caller spend
_isAuthorizedAnyone(tokenOwner, spender, tokenId) == spender # ZeroAddress

\* ERC721._isAuthorized
_isAuthorized(tokenOwner, spender, tokenId) ==
    /\ spender # ZeroAddress
    /\ \/ tokenOwner = spender
       \/ isApprovedForAll(tokenOwner, spender)
       \/ _getApproved(tokenId) = spender

\* ERC721._checkAuthorized
_checkAuthorized(tokenOwner, spender, tokenId) ==
    IF _isAuthorized(tokenOwner, spender, tokenId) THEN NoError
    ELSE IF tokenOwner = ZeroAddress
         THEN Revert("ERC721NonexistentToken", <<tokenId>>)
         ELSE Revert("ERC721InsufficientApproval", <<spender, tokenId>>)

\* a _checkOwner that reports the owner instead of the rejected caller
_checkOwnerReportsOwner(caller) ==
    IF owner # caller
    THEN Revert("OwnableUnauthorizedAccount", <<owner>>)
    ELSE NoError

\* Ownable._checkOwner (the onlyOwner modifier)
_checkOwner(caller) ==
    IF owner # caller
    THEN Revert("OwnableUnauthorizedAccount", <<caller>>)
    ELSE NoError

-----------------------------------------------------------------------------
(* Who may call now, and how a call ends *)

\* the callback on top of the stack
Top == stack[Len(stack)]

\* A call that reverts leaves the storage as it found it, and every call from
\* that storage is taken from the state before it: the search goes on from
\* the calls that returned (or are inside their callback).
Returned == last.err \in {NoError, Pending}

\* A transaction is started by any address; inside a callback only the
\* contract that is being called back calls (into the collection).
Callers == IF stack = <<>> THEN Addr ELSE {Top.to}

CanCall(caller) == Returned /\ caller \in Callers

\* the events of the transaction after a call that emitted `events`
LogsAfter(e, events) ==
    IF stack = <<>>
    THEN (IF e = NoError THEN events ELSE <<>>)
    ELSE (IF e = NoError THEN logs \o events ELSE logs)

\* a call that opens no callback returns (or reverts) at once
Finish(op, caller, a, e, r, events) ==
    /\ last' = Outcome(op, caller, a, e, r)
    /\ logs' = LogsAfter(e, events)
    /\ stack' = stack
    /\ UNCHANGED <<server, browser>>

\* a frame that keeps the token counter of the reverted call
SnapshotKeepsCounter ==
    [_owner |-> _owner, _nextTokenId |-> _nextTokenId + 1, _baseTokenURI |-> _baseTokenURI,
     _metadataFrozen |-> _metadataFrozen, _owners |-> _owners, _balances |-> _balances,
     _tokenApprovals |-> _tokenApprovals, _operatorApprovals |-> _operatorApprovals,
     logs |-> IF stack = <<>> THEN <<>> ELSE logs, minted |-> minted]

\* what a revert of the callback's frame restores
Snapshot ==
    [_owner |-> _owner, _nextTokenId |-> _nextTokenId, _baseTokenURI |-> _baseTokenURI,
     _metadataFrozen |-> _metadataFrozen, _owners |-> _owners, _balances |-> _balances,
     _tokenApprovals |-> _tokenApprovals, _operatorApprovals |-> _operatorApprovals,
     logs |-> IF stack = <<>> THEN <<>> ELSE logs, minted |-> minted]

\* ERC721Utils.checkOnERC721Received: a recipient with code is called back
OpenCallback(op, caller, a, to, tokenId, events) ==
    /\ stack' = Append(stack, [op |-> op, caller |-> caller, args |-> a, to |-> to,
                               tokenId |-> tokenId, snap |-> Snapshot])
    /\ logs' = LogsAfter(NoError, events)
    /\ last' = Outcome(op, caller, a, Pending, 0)
    /\ UNCHANGED <<server, browser>>

-----------------------------------------------------------------------------
(* ERC721._update: the balances, the owner and the approval of a token moved to `to` *)

\* an _update that credits the recipient twice
BalancesAfterUpdateTwice(from, to) ==
    LET b1 == IF from # ZeroAddress
              THEN Write(_balances, from, Read(_balances, from) - 1)
              ELSE _balances
    IN  IF to # ZeroAddress THEN Write(b1, to, Read(b1, to) + 2) ELSE b1

BalancesAfterUpdate(from, to) ==
    LET b1 == IF from # ZeroAddress
              THEN Write(_balances, from, Read(_balances, from) - 1)
              ELSE _balances
    IN  IF to # ZeroAddress THEN Write(b1, to, Read(b1, to) + 1) ELSE b1

\* an _update that deletes the owner of a token that had one
OwnersAfterUpdateBurns(to, tokenId) ==
    IF Read(_owners, tokenId) # ZeroAddress THEN Write(_owners, tokenId, ZeroAddress)
    ELSE Write(_owners, tokenId, to)

OwnersAfterUpdate(to, tokenId) == Write(_owners, tokenId, to)

ApprovalsAfterUpdate(from, tokenId) ==
    IF from # ZeroAddress THEN Write(_tokenApprovals, tokenId, ZeroAddress)
    ELSE _tokenApprovals

_update(to, tokenId) ==
    /\ _balances' = BalancesAfterUpdate(_ownerOf(tokenId), to)
    /\ _owners' = OwnersAfterUpdate(to, tokenId)
    /\ _tokenApprovals' = ApprovalsAfterUpdate(_ownerOf(tokenId), tokenId)

-----------------------------------------------------------------------------
(* SimpleNFT.mint *)

\* the ID of ++_nextTokenId, the counter's value after the increment
MintTokenIdPreIncrement == _nextTokenId + 1
\* uint256 tokenId = _nextTokenId++
MintTokenId == _nextTokenId
\* a counter that leaves out every other ID
NextTokenIdAfterMintSkips == _nextTokenId + 2
\* _nextTokenId++
NextTokenIdAfterMint == _nextTokenId + 1

\* an emit that names the token after the minted one
MetadataUpdateOfNextToken(tokenId) == Event("MetadataUpdate", <<tokenId + 1>>)
\* emit MetadataUpdate(tokenId)
MetadataUpdate(tokenId) == Event("MetadataUpdate", <<tokenId>>)

\* ERC721._mint: reverts when the token already has an owner
MintError(tokenId) ==
    IF _ownerOf(tokenId) # ZeroAddress
    THEN Revert("ERC721InvalidSender", <<ZeroAddress>>)
    ELSE NoError

mint(caller) ==
    /\ CanCall(caller)
    /\ caller \in CONTRACT => Len(stack) < MaxDepth
    /\ LET tokenId == MintTokenId
           e == MintError(tokenId)
           transfer == Event("Transfer", <<ZeroAddress, caller, tokenId>>)
       IN  IF e # NoError
           THEN /\ Finish("mint", caller, <<>>, e, 0, <<>>)
                /\ UNCHANGED <<storage, minted>>
           ELSE /\ _nextTokenId' = NextTokenIdAfterMint
                /\ _update(caller, tokenId)
                /\ minted' = Append(minted, tokenId)
                /\ UNCHANGED <<_owner, _baseTokenURI, _metadataFrozen, _operatorApprovals>>
                /\ IF caller \in CONTRACT
                   THEN OpenCallback("mint", caller, <<>>, caller, tokenId, <<transfer>>)
                   ELSE Finish("mint", caller, <<>>, NoError, tokenId,
                               <<transfer, MetadataUpdate(tokenId)>>)

-----------------------------------------------------------------------------
(* The recipient's onERC721Received *)

\* the callback returns the selector: the call that opened it goes on and returns
onERC721ReceivedAccept ==
    /\ Returned
    /\ stack # <<>>
    /\ stack' = SubSeq(stack, 1, Len(stack) - 1)
    /\ logs' = IF Top.op = "mint"
               THEN Append(logs, MetadataUpdate(Top.tokenId))
               ELSE logs
    /\ last' = Outcome(Top.op, Top.caller, Top.args, NoError,
                       IF Top.op = "mint" THEN Top.tokenId ELSE 0)
    /\ UNCHANGED <<storage, minted, server, browser>>

\* what the call that opened the callback reverts with: ERC721InvalidReceiver
\* when the callback returns another value than the selector or reverts
\* without a reason, and the callback's own reason otherwise
ReceiverErrors(to) ==
    {Revert("ERC721InvalidReceiver", <<to>>), Revert("Error", <<"receiver">>)}

\* the callback reverts or returns another value: the call that opened it
\* reverts and all it did is undone
onERC721ReceivedReject ==
    /\ Returned
    /\ stack # <<>>
    /\ stack' = SubSeq(stack, 1, Len(stack) - 1)
    /\ _owner' = Top.snap._owner
    /\ _nextTokenId' = Top.snap._nextTokenId
    /\ _baseTokenURI' = Top.snap._baseTokenURI
    /\ _metadataFrozen' = Top.snap._metadataFrozen
    /\ _owners' = Top.snap._owners
    /\ _balances' = Top.snap._balances
    /\ _tokenApprovals' = Top.snap._tokenApprovals
    /\ _operatorApprovals' = Top.snap._operatorApprovals
    /\ logs' = Top.snap.logs
    /\ minted' = Top.snap.minted
    /\ \E e \in ReceiverErrors(Top.to) :
          last' = Outcome(Top.op, Top.caller, Top.args, e, 0)
    /\ UNCHANGED <<server, browser>>

-----------------------------------------------------------------------------
(* ERC721.transferFrom and safeTransferFrom *)

\* the revert of transferFrom, in the order the checks are made
TransferError(caller, from, to, tokenId) ==
    IF to = ZeroAddress THEN Revert("ERC721InvalidReceiver", <<ZeroAddress>>)
    ELSE IF _checkAuthorized(_ownerOf(tokenId), caller, tokenId) # NoError
         THEN _checkAuthorized(_ownerOf(tokenId), caller, tokenId)
    ELSE IF _ownerOf(tokenId) # from
         THEN Revert("ERC721IncorrectOwner", <<from, tokenId, _ownerOf(tokenId)>>)
    ELSE NoError

transferFrom(caller, from, to, tokenId) ==
    /\ CanCall(caller)
    /\ LET e == TransferError(caller, from, to, tokenId)
       IN  /\ IF e = NoError
              THEN _update(to, tokenId)
              ELSE UNCHANGED <<_owners, _balances, _tokenApprovals>>
           /\ Finish("transferFrom", caller, <<from, to, tokenId>>, e, 0,
                     <<Event("Transfer", <<from, to, tokenId>>)>>)
    /\ UNCHANGED <<_owner, _nextTokenId, _baseTokenURI, _metadataFrozen,
                   _operatorApprovals, minted>>

safeTransferFrom(caller, from, to, tokenId) ==
    /\ CanCall(caller)
    /\ to \in CONTRACT => Len(stack) < MaxDepth
    /\ LET e == TransferError(caller, from, to, tokenId)
           transfer == Event("Transfer", <<from, to, tokenId>>)
       IN  IF e # NoError
           THEN /\ UNCHANGED <<_owners, _balances, _tokenApprovals>>
                /\ Finish("safeTransferFrom", caller, <<from, to, tokenId>>, e, 0, <<>>)
           ELSE /\ _update(to, tokenId)
                /\ IF to \in CONTRACT
                   THEN OpenCallback("safeTransferFrom", caller, <<from, to, tokenId>>,
                                     to, tokenId, <<transfer>>)
                   ELSE Finish("safeTransferFrom", caller, <<from, to, tokenId>>,
                               NoError, 0, <<transfer>>)
    /\ UNCHANGED <<_owner, _nextTokenId, _baseTokenURI, _metadataFrozen,
                   _operatorApprovals, minted>>

-----------------------------------------------------------------------------
(* ERC721.approve and setApprovalForAll *)

ApproveError(caller, tokenId) ==
    IF _requireOwned(tokenId) # NoError THEN _requireOwned(tokenId)
    ELSE IF _ownerOf(tokenId) # caller /\ ~isApprovedForAll(_ownerOf(tokenId), caller)
         THEN Revert("ERC721InvalidApprover", <<caller>>)
    ELSE NoError

approve(caller, to, tokenId) ==
    /\ CanCall(caller)
    /\ LET e == ApproveError(caller, tokenId)
       IN  /\ _tokenApprovals' = IF e = NoError THEN Write(_tokenApprovals, tokenId, to)
                                 ELSE _tokenApprovals
           /\ Finish("approve", caller, <<to, tokenId>>, e, 0,
                     <<Event("Approval", <<_ownerOf(tokenId), to, tokenId>>)>>)
    /\ UNCHANGED <<_owner, _nextTokenId, _baseTokenURI, _metadataFrozen, _owners,
                   _balances, _operatorApprovals, minted>>

SetApprovalForAllError(operator) ==
    IF operator = ZeroAddress THEN Revert("ERC721InvalidOperator", <<operator>>)
    ELSE NoError

setApprovalForAll(caller, operator, approved) ==
    /\ CanCall(caller)
    /\ LET e == SetApprovalForAllError(operator)
       IN  /\ _operatorApprovals' =
                 IF e # NoError THEN _operatorApprovals
                 ELSE IF approved THEN _operatorApprovals \cup {<<caller, operator>>}
                 ELSE _operatorApprovals \ {<<caller, operator>>}
           /\ Finish("setApprovalForAll", caller, <<operator, approved>>, e, 0,
                     <<Event("ApprovalForAll", <<caller, operator, approved>>)>>)
    /\ UNCHANGED <<_owner, _nextTokenId, _baseTokenURI, _metadataFrozen, _owners,
                   _balances, _tokenApprovals, minted>>

-----------------------------------------------------------------------------
(* SimpleNFT.setBaseURI and freezeMetadata *)

\* a setBaseURI without the require(!_metadataFrozen)
SetBaseURIErrorNoFreezeCheck(caller) == _checkOwner(caller)

\* onlyOwner runs before the body's require(!_metadataFrozen, "Metadata is frozen")
SetBaseURIError(caller) ==
    IF _checkOwner(caller) # NoError THEN _checkOwner(caller)
    ELSE IF _metadataFrozen THEN Revert("Error", <<"Metadata is frozen">>)
    ELSE NoError

setBaseURI(caller, baseURI) ==
    /\ CanCall(caller)
    /\ LET e == SetBaseURIError(caller)
       IN  /\ _baseTokenURI' = IF e = NoError THEN baseURI ELSE _baseTokenURI
           /\ Finish("setBaseURI", caller, <<baseURI>>, e, 0,
                     <<Event("BatchMetadataUpdate", <<1, "type(uint256).max">>)>>)
    /\ UNCHANGED <<_owner, _nextTokenId, _metadataFrozen, _owners, _balances,
                   _tokenApprovals, _operatorApprovals, minted>>

\* the flag freezeMetadata stores; a freezeMetadata that toggles the flag
FrozenAfterFreezeToggles == ~_metadataFrozen
FrozenAfterFreeze == TRUE

\* a freezeMetadata that refuses to freeze twice
FreezeMetadataErrorWhenFrozen(caller) ==
    IF _checkOwner(caller) # NoError THEN _checkOwner(caller)
    ELSE IF _metadataFrozen THEN Revert("Error", <<"Metadata is frozen">>)
    ELSE NoError

FreezeMetadataError(caller) == _checkOwner(caller)

freezeMetadata(caller) ==
    /\ CanCall(caller)
    /\ LET e == FreezeMetadataError(caller)
       IN  /\ _metadataFrozen' = IF e = NoError THEN FrozenAfterFreeze ELSE _metadataFrozen
           /\ Finish("freezeMetadata", caller, <<>>, e, 0, <<>>)
    /\ UNCHANGED <<_owner, _nextTokenId, _baseTokenURI, _owners, _balances,
                   _tokenApprovals, _operatorApprovals, minted>>

-----------------------------------------------------------------------------
(* Ownable.transferOwnership and renounceOwnership, inherited as public functions *)

\* a transferOwnership without onlyOwner
TransferOwnershipErrorNoCheck(caller, newOwner) ==
    IF newOwner = ZeroAddress THEN Revert("OwnableInvalidOwner", <<ZeroAddress>>)
    ELSE NoError

TransferOwnershipError(caller, newOwner) ==
    IF _checkOwner(caller) # NoError THEN _checkOwner(caller)
    ELSE IF newOwner = ZeroAddress THEN Revert("OwnableInvalidOwner", <<ZeroAddress>>)
    ELSE NoError

transferOwnership(caller, newOwner) ==
    /\ CanCall(caller)
    /\ LET e == TransferOwnershipError(caller, newOwner)
       IN  /\ _owner' = IF e = NoError THEN newOwner ELSE _owner
           /\ Finish("transferOwnership", caller, <<newOwner>>, e, 0,
                     <<Event("OwnershipTransferred", <<_owner, newOwner>>)>>)
    /\ UNCHANGED <<_nextTokenId, _baseTokenURI, _metadataFrozen, _owners, _balances,
                   _tokenApprovals, _operatorApprovals, minted>>

renounceOwnership(caller) ==
    /\ CanCall(caller)
    /\ LET e == _checkOwner(caller)
       IN  /\ _owner' = IF e = NoError THEN ZeroAddress ELSE _owner
           /\ Finish("renounceOwnership", caller, <<>>, e, 0,
                     <<Event("OwnershipTransferred", <<_owner, ZeroAddress>>)>>)
    /\ UNCHANGED <<_nextTokenId, _baseTokenURI, _metadataFrozen, _owners, _balances,
                   _tokenApprovals, _operatorApprovals, minted>>

-----------------------------------------------------------------------------
(* The collection after its constructor, and its transactions *)

\* no request has been made to the server yet
NoRequest == [endpoint |-> "(none)"]

\* the server at its start: an empty bucket, no request yet
InitServer ==
    /\ store = {}
    /\ now = 0
    /\ response = NoRequest
    /\ served = {}
    /\ latest = {}

\* NEXUS_CHAIN_ID_HEX: `0x${CHAIN_ID_DECIMAL.toString(16)}` with CHAIN_ID_DECIMAL = 393
NEXUS_CHAIN_ID_HEX == "0x189"

\* the chain a wallet is on when it is not on the Nexus chain
OtherChainId == "0x1"

\* useState<{type, message}>({ type: 'info', message: '' })
NoStatus == [type |-> "info", message |-> ""]

\* the wallet has answered no request of a page yet
NoAnswer == [op |-> "", outcome |-> ""]

\* the home page as it is mounted: useState(false), useState('MyNFT'),
\* useState(''), useState<File | null>(null)
HomeMounted ==
    [isConnected |-> FALSE, isCorrectNetwork |-> FALSE, isDeploying |-> FALSE,
     nftName |-> <<"M", "y", "N", "F", "T">>, hasImage |-> FALSE, status |-> ""]

\* the pages before they are opened, a wallet on another chain
InitBrowser ==
    /\ collection = [isCorrectNetwork |-> FALSE, nftContract |-> FALSE, isOwner |-> FALSE,
                     isMinting |-> FALSE, isLoadingNFTs |-> FALSE, status |-> NoStatus,
                     cards |-> <<>>]
    /\ home = HomeMounted
    /\ tasks = EmptyBag
    /\ wallet = [chainId |-> OtherChainId, answer |-> NoAnswer]
    /\ sent = {}

\* constructor(name, symbol, initialOwner): Ownable rejects the zero address
Init ==
    /\ InitServer
    /\ InitBrowser
    /\ _owner \in Addr
    /\ _nextTokenId = 1
    /\ _baseTokenURI = ""
    /\ _metadataFrozen = FALSE
    /\ _owners = EmptyMap
    /\ _balances = EmptyMap
    /\ _tokenApprovals = EmptyMap
    /\ _operatorApprovals = {}
    /\ stack = <<>>
    /\ logs = <<Event("OwnershipTransferred", <<ZeroAddress, _owner>>)>>
    /\ last = Outcome("constructor", _owner, <<_owner>>, NoError, 0)
    /\ minted = <<>>

\* the approvals in place
ApprovalCount == Cardinality(DOMAIN _tokenApprovals) + Cardinality(_operatorApprovals)

\* The arguments of transferFrom.  In a transaction: any caller, recipient and
\* token ID, from the caller or from the token's owner.  In a callback: the
\* called-back contract passes the token it was handed on to an account.
TransferArgs ==
    IF stack = <<>>
    THEN {a \in Addr \X (Addr \cup {ZeroAddress}) \X Recipients \X IdArgs :
             a[2] \in {a[1], _ownerOf(a[4])}}
    ELSE {<<Top.to, Top.to, to, Top.tokenId>> : to \in EOA}

\* One action for each function of the collection.  Inside a callback the
\* called-back contract mints again, passes its token on or freezes the metadata.
Mint == \E caller \in Callers : _nextTokenId <= MaxTokens /\ mint(caller)

TransferFrom == \E a \in TransferArgs : transferFrom(a[1], a[2], a[3], a[4])

SafeTransferFrom ==
    \E caller \in Addr, to \in CONTRACT, tokenId \in IdArgs :
        stack = <<>> /\ safeTransferFrom(caller, caller, to, tokenId)

Approve ==
    \E caller \in Addr, to \in Spenders, tokenId \in IdArgs :
        /\ stack = <<>>
        /\ to # ZeroAddress => ApprovalCount < MaxApprovals
        /\ approve(caller, to, tokenId)

SetApprovalForAll ==
    \E caller \in Addr, operator \in Spenders, approved \in BOOLEAN :
        /\ stack = <<>>
        /\ approved => ApprovalCount < MaxApprovals
        /\ setApprovalForAll(caller, operator, approved)

SetBaseURI == \E caller \in Addr, baseURI \in URIS : stack = <<>> /\ setBaseURI(caller, baseURI)

FreezeMetadata == \E caller \in Callers : freezeMetadata(caller)

TransferOwnership ==
    \E caller \in Addr, newOwner \in Addr \cup {ZeroAddress} :
        stack = <<>> /\ transferOwnership(caller, newOwner)

RenounceOwnership == \E caller \in Addr : stack = <<>> /\ renounceOwnership(caller)

Next ==
    \/ Mint
    \/ onERC721ReceivedAccept
    \/ onERC721ReceivedReject
    \/ TransferFrom
    \/ SafeTransferFrom
    \/ Approve
    \/ SetApprovalForAll
    \/ SetBaseURI
    \/ FreezeMetadata
    \/ TransferOwnership
    \/ RenounceOwnership

Spec == Init /\ [][Next]_vars

-----------------------------------------------------------------------------
(* The collection minted by one account, for token IDs of two decimal digits *)

MintURI == \E caller \in EOA : _nextTokenId <= MaxMintsURI /\ mint(caller)

NextURI ==
    \/ MintURI
    \/ SetBaseURI
    \/ FreezeMetadata

SpecURI == Init /\ [][NextURI]_vars

-----------------------------------------------------------------------------
(* The web server: JavaScript strings *)

\* A string the code looks into (an address, a file name, a content type, a
\* token ID) is the sequence of its characters; a string the code only puts
\* together (a URL, a title) is the sequence of its pieces.

\* char.charCodeAt(0)
charCodeAt(c) ==
    CASE c = " " -> 32 [] c = "#" -> 35 [] c = "-" -> 45 [] c = "." -> 46
      [] c = "/" -> 47 [] c = "0" -> 48 [] c = "1" -> 49 [] c = "2" -> 50
      [] c = "3" -> 51 [] c = "4" -> 52 [] c = "5" -> 53 [] c = "6" -> 54
      [] c = "7" -> 55 [] c = "8" -> 56 [] c = "9" -> 57 [] c = "A" -> 65
      [] c = "B" -> 66 [] c = "C" -> 67 [] c = "G" -> 71 [] c = "Z" -> 90
      [] c = "_" -> 95 [] c = "a" -> 97 [] c = "b" -> 98 [] c = "c" -> 99
      [] c = "d" -> 100 [] c = "e" -> 101 [] c = "g" -> 103 [] c = "i" -> 105
      [] c = "l" -> 108 [] c = "m" -> 109 [] c = "n" -> 110 [] c = "o" -> 111
      [] c = "p" -> 112 [] c = "t" -> 116 [] c = "x" -> 120 [] c = "y" -> 121
      [] c = "z" -> 122

\* the lower-case letter of an upper-case one
LowerChar(c) ==
    CASE c = "A" -> "a" [] c = "B" -> "b" [] c = "C" -> "c" [] OTHER -> c

\* a toLowerCase that leaves the string as it is
toLowerCaseKeepsCase(str) == str
\* String.prototype.toLowerCase
toLowerCase(str) == [i \in 1 .. Len(str) |-> LowerChar(str[i])]

\* String.prototype.startsWith
startsWith(str, prefix) ==
    Len(str) >= Len(prefix) /\ SubSeq(str, 1, Len(prefix)) = prefix

\* the order of two strings by their character codes
RECURSIVE Before(_, _)
Before(a, b) ==
    IF a = <<>> THEN b # <<>>
    ELSE IF b = <<>> THEN FALSE
    ELSE IF charCodeAt(a[1]) # charCodeAt(b[1]) THEN charCodeAt(a[1]) < charCodeAt(b[1])
    ELSE Before(Tail(a), Tail(b))

\* a value that may be missing (null): <<>> when it is, <<v>> when it is v
Null == <<>>
Some(v) == <<v>>

\* !value, for a string that may be null: null and "" are falsy
Falsy(value) == value = Null \/ value[1] = <<>>

-----------------------------------------------------------------------------
(* The web server: the asset store (Firebase Storage) *)

\* 'collection-', the prefix of a collection image's name
CollectionPrefix == <<"c", "o", "l", "l", "e", "c", "t", "i", "o", "n", "-">>

\* what goes wrong in the asset store during a request
StoreFaults == {"none", "getStorage", "listAll", "getDownloadURL"}

\* the names of the objects under collections/<collectionPath>
NamesUnder(collectionPath) == {a.name : a \in {b \in store : b.ns = collectionPath}}

\* listAll(ref(storage, collectionPath)).items: the objects' names, in order
RECURSIVE ListInOrder(_)
ListInOrder(names) ==
    IF names = {} THEN <<>>
    ELSE LET first == CHOOSE n \in names : \A m \in names \ {n} : Before(n, m)
         IN  <<first>> \o ListInOrder(names \ {first})

listAll(collectionPath) == ListInOrder(NamesUnder(collectionPath))

\* getDownloadURL(ref): the URL under which the object is served
getDownloadURL(collectionPath, name) ==
    <<"https://firebasestorage.googleapis.com/collections/">>
        \o collectionPath \o <<"/">> \o name

\* items.find(item => item.name.startsWith('collection-'))
FindCollectionImage(items) ==
    LET found == SelectSeq(items, LAMBDA n : startsWith(n, CollectionPrefix))
    IN  IF found = <<>> THEN Null ELSE Some(found[1])

\* a findUploadedImage that lets the store's failures escape
findUploadedImageThrows(contractAddress, fault) ==
    LET collectionPath == toLowerCase(contractAddress)
        collectionImage == FindCollectionImage(listAll(collectionPath))
    IN  IF fault \in {"getStorage", "listAll"} THEN [threw |-> TRUE, value |-> Null]
        ELSE IF collectionImage = Null THEN [threw |-> FALSE, value |-> Null]
        ELSE IF fault = "getDownloadURL" THEN [threw |-> TRUE, value |-> Null]
        ELSE [threw |-> FALSE,
              value |-> Some(getDownloadURL(collectionPath, collectionImage[1]))]

\* findUploadedImage: the URL of the collection's uploaded image, or null;
\* every failure of the store is caught and answered with null
findUploadedImage(contractAddress, fault) ==
    LET collectionPath == toLowerCase(contractAddress)
        collectionImage == FindCollectionImage(listAll(collectionPath))
    IN  IF fault = "getStorage" THEN [threw |-> FALSE, value |-> Null]
        ELSE IF fault = "listAll" THEN [threw |-> FALSE, value |-> Null]
        ELSE IF collectionImage = Null THEN [threw |-> FALSE, value |-> Null]
        ELSE IF fault = "getDownloadURL" THEN [threw |-> FALSE, value |-> Null]
        ELSE [threw |-> FALSE,
              value |-> Some(getDownloadURL(collectionPath, collectionImage[1]))]

-----------------------------------------------------------------------------
(* The web server: the metadata endpoints *)

\* process.env.NEXT_PUBLIC_API_URL and NEXT_PUBLIC_WEBSITE_URL, or their default
API_URL == <<"http://localhost:3000">>
BASE_URL == <<"http://localhost:3000">>

\* `${API_URL}/api/image/${tokenId}`
GeneratedImageURL(tokenId) == API_URL \o <<"/api/image/">> \o tokenId

\* the metadata document of a token, with the uploaded image if there is one
Metadata(tokenId, uploadedImage) ==
    [name |-> <<"MyNFT #">> \o tokenId,
     description |-> <<"NFT #">> \o tokenId \o <<" on the Nexus network.">>,
     image |-> IF uploadedImage # Null /\ uploadedImage[1] # <<>>
               THEN uploadedImage[1]
               ELSE GeneratedImageURL(tokenId),
     external_url |-> BASE_URL \o <<"/nft/">> \o tokenId,
     attributes |-> <<
        [trait_type |-> "Token ID", value |-> tokenId],
        [trait_type |-> "Image Type",
         value |-> IF uploadedImage # Null /\ uploadedImage[1] # <<>>
                   THEN "Uploaded" ELSE "Generated"],
        [display_type |-> "date", trait_type |-> "Created", value |-> now \div 1000]>>]

\* validateMetadata: the fields are there and every attribute has a trait type
validateMetadata(metadata) ==
    /\ metadata.name # <<>>
    /\ metadata.description # <<>>
    /\ metadata.image # <<>>
    /\ metadata.external_url # <<>>
    /\ \A i \in 1 .. Len(metadata.attributes) : metadata.attributes[i].trait_type # ""

\* headers of a metadata document marked as cacheable for ever
MetadataCacheControlImmutable == <<"public", "max-age=31536000", "immutable">>
\* 'Cache-Control': 'no-cache, no-store, must-revalidate', directive by directive
MetadataCacheControl == <<"no-cache", "no-store", "must-revalidate">>

\* NextResponse.json(body, {status}): no Cache-Control header is set
NoCacheControl == <<>>

\* a response of the server to a request
Response(endpoint, request, status, body, cacheControl) ==
    [endpoint |-> endpoint, request |-> request, status |-> status,
     body |-> body, cacheControl |-> cacheControl]

ErrorBody(message) == [error |-> message]

\* what the two metadata handlers do once the parameters are there
MetadataResponse(endpoint, request, tokenId, validates) ==
    LET found == findUploadedImage(request.contract[1], request.fault)
        metadata == Metadata(tokenId, found.value)
    IN  IF found.threw
        THEN Response(endpoint, request, 500, ErrorBody("Failed to generate metadata"),
                      NoCacheControl)
        ELSE IF validates /\ ~validateMetadata(metadata)
        THEN Response(endpoint, request, 500, ErrorBody("Invalid metadata structure"),
                      NoCacheControl)
        ELSE Response(endpoint, request, 200, metadata, MetadataCacheControl)

\* GET /api/metadata/<tokenId>?contract=<address>
MetadataByPath(request) ==
    IF Falsy(request.contract)
    THEN Response("metadata/[tokenId]", request, 400,
                  ErrorBody("Contract address is required"), NoCacheControl)
    ELSE MetadataResponse("metadata/[tokenId]", request, request.tokenId[1], TRUE)

\* a handler that does not check the token ID: `${null}` is "null"
MetadataByQueryUnchecked(request) ==
    IF Falsy(request.contract)
    THEN Response("metadata", request, 400,
                  ErrorBody("Contract address is required"), NoCacheControl)
    ELSE MetadataResponse("metadata", request,
                          IF request.tokenId = Null THEN <<"n", "u", "l", "l">>
                          ELSE request.tokenId[1], FALSE)

\* GET /api/metadata?contract=<address>&tokenId=<id>
MetadataByQuery(request) ==
    IF Falsy(request.contract)
    THEN Response("metadata", request, 400,
                  ErrorBody("Contract address is required"), NoCacheControl)
    ELSE IF Falsy(request.tokenId)
    THEN Response("metadata", request, 400,
                  ErrorBody("Token ID is required"), NoCacheControl)
    ELSE MetadataResponse("metadata", request, request.tokenId[1], FALSE)

-----------------------------------------------------------------------------
(* The web server: the image endpoint *)

\* the largest and the smallest 32-bit integer
MaxInt32 == 2147483647
MinInt32 == (-MaxInt32) - 1

\* acc << 5, on 32 bits
ShiftLeft5(acc) ==
    LET low == acc % 134217728
    IN  IF low >= 67108864 THEN (low - 134217728) * 32 ELSE low * 32

\* (a - b) | 0 and (a + b) | 0: the difference and the sum, wrapped to 32 bits
SubInt32(a, b) ==
    IF b > 0 /\ a < MinInt32 + b THEN ((a + MaxInt32) + 1) + ((MaxInt32 - b) + 1)
    ELSE IF b < 0 /\ a > MaxInt32 + b THEN ((a - MaxInt32) - 1) + (((-(b + MaxInt32))) - 1)
    ELSE a - b

AddInt32(a, b) ==
    IF b > 0 /\ a > MaxInt32 - b THEN ((a - MaxInt32) - 1) + ((b - MaxInt32) - 1)
    ELSE a + b

\* Array.from(tokenId).reduce((acc, char) => ((acc << 5) - acc + char.charCodeAt(0)) | 0, 0)
RECURSIVE HashFrom(_, _)
HashFrom(acc, chars) ==
    IF chars = <<>> THEN acc
    ELSE HashFrom(AddInt32(SubInt32(ShiftLeft5(acc), acc), charCodeAt(chars[1])),
                  Tail(chars))

Hash(tokenId) == HashFrom(0, tokenId)

\* an absolute value kept on 32 bits: that of the smallest integer is itself
AbsModInt32(hash, m) ==
    IF hash = MinInt32 THEN -(((MaxInt32 % m) + 1) % m)
    ELSE IF hash < 0 THEN (-hash) % m
    ELSE hash % m
\* Math.abs(hash) % m: the absolute value of the smallest integer is 2^31
AbsMod(hash, m) ==
    IF hash = MinInt32 THEN ((MaxInt32 % m) + 1) % m
    ELSE IF hash < 0 THEN (-hash) % m
    ELSE hash % m

\* hash % m in JavaScript: the remainder has the sign of the hash
Remainder(hash, m) == IF hash < 0 THEN -AbsMod(hash, m) ELSE hash % m

\* a colour that also depends on the time of the request
generateColorByTime(tokenId) ==
    <<"hsl(", AbsMod(AddInt32(Hash(tokenId), now), 360), ", 70%, 60%)">>
\* generateColor: `hsl(${hue}, 70%, 60%)`
generateColor(tokenId) == <<"hsl(", AbsMod(Hash(tokenId), 360), ", 70%, 60%)">>

\* generatePattern: numCircles circles on a ring, each of radius 50 + hash % 30;
\* cx and cy are the cosine and sine of i * (2 pi / numCircles), kept as such
generatePattern(tokenId) ==
    LET numCircles == AbsMod(Hash(tokenId), 5) + 3
    IN  [i \in 1 .. numCircles |->
            [cx |-> <<"250 + cos", i - 1, numCircles, "* 100">>,
             cy |-> <<"250 + sin", i - 1, numCircles, "* 100">>,
             r |-> 50 + Remainder(Hash(tokenId), 30)]]

\* the SVG document of a token
Svg(tokenId) ==
    [stopColor |-> generateColor(tokenId),
     pattern |-> generatePattern(tokenId),
     text |-> <<"#">> \o tokenId]

ImageCacheControl == <<"public", "max-age=31536000", "immutable">>

\* GET /api/image/<tokenId>
Image(request) ==
    Response("image/[tokenId]", request, 200, Svg(request.tokenId[1]), ImageCacheControl)

-----------------------------------------------------------------------------
(* The web server: the upload endpoint *)

\* 'image/', the prefix of an image's content type
ImagePrefix == <<"i", "m", "a", "g", "e", "/">>

\* a character of [a-zA-Z0-9.-]
IsFileNameChar(c) ==
    \/ charCodeAt(c) \in 48 .. 57
    \/ charCodeAt(c) \in 65 .. 90
    \/ charCodeAt(c) \in 97 .. 122
    \/ c \in {".", "-"}

\* a sanitizer that keeps every character
SanitizeKeepsAll(name) == name
\* file.name.replace(/[^a-zA-Z0-9.-]/g, '')
Sanitize(name) == SelectSeq(name, IsFileNameChar)

\* `collection-${sanitizedFileName}`
CollectionFileName(name) == CollectionPrefix \o Sanitize(name)

\* what goes wrong during an upload
UploadFaults == {"none", "uploadBytes", "getDownloadURL"}

\* the object an upload writes
UploadedAsset(request) ==
    [ns |-> toLowerCase(request.contract[1]),
     name |-> CollectionFileName(request.file[1].name)]

\* the request does not get as far as a successful uploadBytes
UploadNotWritten(request) ==
    \/ request.file = Null
    \/ Falsy(request.contract)
    \/ ~startsWith(request.file[1].type, ImagePrefix)
    \/ request.fault = "uploadBytes"

\* uploadBytes(ref, buffer): the object at the path is written (or overwritten)
StoreAfterUpload(request) ==
    IF UploadNotWritten(request)
    THEN store
    ELSE store \cup {UploadedAsset(request)}

\* POST /api/upload
Upload(request) ==
    IF request.file = Null
    THEN Response("upload", request, 400, ErrorBody("No file uploaded"), NoCacheControl)
    ELSE IF Falsy(request.contract)
    THEN Response("upload", request, 400, ErrorBody("Contract address is required"),
                  NoCacheControl)
    ELSE IF ~startsWith(request.file[1].type, ImagePrefix)
    THEN Response("upload", request, 400, ErrorBody("File must be an image"),
                  NoCacheControl)
    ELSE IF request.fault # "none"
    THEN Response("upload", request, 500, ErrorBody("Upload failed"), NoCacheControl)
    ELSE Response("upload", request, 200,
                  [success |-> TRUE,
                   filename |-> getDownloadURL(UploadedAsset(request).ns,
                                               UploadedAsset(request).name),
                   path |-> <<"collections/">> \o UploadedAsset(request).ns
                               \o <<"/">> \o UploadedAsset(request).name],
                  NoCacheControl)

-----------------------------------------------------------------------------
(* The web server: its requests *)

\* contract addresses of requests, as the wallet and the explorer write them
Addresses == {<<"0", "x", "A", "b">>, <<"0", "x", "a", "b">>, <<"0", "x", "C">>}

\* the `contract` parameter of a request: missing, empty or an address
ContractParams == {Null, Some(<<>>)} \cup {Some(a) : a \in Addresses}

\* token IDs of requests
TokenIds == {<<"1">>, <<"4", "2">>}

\* the `tokenId` query parameter: missing, empty or a token ID
TokenIdParams == {Null, Some(<<>>), Some(<<"1">>)}

\* files of upload requests: none, images and a file that is no image
Files ==
    {Null,
     Some([name |-> <<"a", ".", "p">>, type |-> <<"i", "m", "a", "g", "e", "/", "p">>]),
     Some([name |-> <<"a", " ", "#", ".", "p">>, type |-> <<"i", "m", "a", "g", "e", "/", "p">>]),
     Some([name |-> <<"b">>, type |-> <<"i", "m", "a", "g", "e", "/", "p">>]),
     Some([name |-> <<"a", ".", "p">>, type |-> <<"t", "e", "x", "t">>])}

\* milliseconds between two readings of the clock
TickMs == 700

\* the variables of the collection, which no request to the server changes
chain == <<storage, stack, logs, last, minted>>

\* The server answers one request after the other: `response` holds the
\* request being answered until the answer is sent.
Waiting == response = NoRequest

GetMetadataByPath ==
    \E tokenId \in TokenIds, contract \in ContractParams, fault \in StoreFaults :
        /\ Waiting
        /\ response' = MetadataByPath([tokenId |-> Some(tokenId), contract |-> contract,
                                       fault |-> fault])
        /\ UNCHANGED <<store, now, served, latest, chain, browser>>

GetMetadataByQuery ==
    \E tokenId \in TokenIdParams, contract \in ContractParams, fault \in StoreFaults :
        /\ Waiting
        /\ response' = MetadataByQuery([tokenId |-> tokenId, contract |-> contract,
                                        fault |-> fault])
        /\ UNCHANGED <<store, now, served, latest, chain, browser>>

getImage(tokenId) ==
    /\ Waiting
    /\ response' = Image([tokenId |-> Some(tokenId)])
    /\ served' = served \cup {<<tokenId, now, response'.body>>}
    /\ UNCHANGED <<store, now, latest, chain, browser>>

GetImage == \E tokenId \in TokenIds : getImage(tokenId)

PostUpload ==
    \E file \in Files, contract \in ContractParams, fault \in UploadFaults :
        LET request == [file |-> file, contract |-> contract, fault |-> fault]
        IN  /\ Waiting
            /\ Cardinality(StoreAfterUpload(request)) <= MaxAssets
            /\ store' = StoreAfterUpload(request)
            /\ latest' = IF UploadNotWritten(request) THEN latest
                          ELSE {a \in latest : a.ns # UploadedAsset(request).ns}
                                  \cup {UploadedAsset(request)}
            /\ response' = Upload(request)
            /\ UNCHANGED <<now, served, chain, browser>>

\* the answer is sent: the server waits for the next request
Send ==
    /\ ~Waiting
    /\ response' = NoRequest
    /\ UNCHANGED <<store, now, served, latest, chain, browser>>

\* time passes between two requests
Tick ==
    /\ Waiting
    /\ now < MaxTicks * TickMs
    /\ now' = now + TickMs
    /\ UNCHANGED <<store, response, served, latest, chain, browser>>

\* the collection as account 1 deployed it
InitAPI == Init /\ _owner = 1

NextAPI ==
    \/ GetMetadataByPath
    \/ GetMetadataByQuery
    \/ GetImage
    \/ PostUpload
    \/ Send
    \/ Tick

SpecAPI == InitAPI /\ [][NextAPI]_vars

\* token IDs of image requests, short and long, as digits and as other text
LongTokenIds ==
    <<<<"1">>, <<"4", "2">>, <<"G", "y", "d", "Z", "G", "_">>,
      <<"1", "2", "3", "4", "5", "6", "7", "8">>, <<"1", "0", "0", "0", "0", "0", "0">>,
      <<"4", "2", "4", "2", "4", "2", "4", "2">>, <<"z", "z", "z", "z", "z", "z">>,
      <<"9", "9", "9", "9", "9", "9">>>>

GetImageOfLongId ==
    \E i \in 1 .. MaxLongIds : i <= Len(LongTokenIds) /\ getImage(LongTokenIds[i])

\* the image endpoint alone
NextImage ==
    \/ GetImageOfLongId
    \/ Send

SpecImage == InitAPI /\ [][NextImage]_vars

-----------------------------------------------------------------------------
(* The collection page: its state, the wallet and the handlers in progress *)

\* the tokens of the gallery
CardIds == 1 .. MaxCards

\* what can be typed into the recipient field of a card
TypedAddresses == {"", "0xB"}

\* an NFTCard as it is mounted: the useState initial values, isOwner from ownerOf
MountedCard(isOwner) ==
    [isOwner |-> isOwner, isTransferring |-> FALSE, transferAddress |-> ""]

\* the gallery is not rendered (isLoadingNFTs shows the spinner instead)
NoCards == <<>>

\* a handler that waits on an await: its function, its token, the await
Task(op, tokenId, pc) == [op |-> op, tokenId |-> tokenId, pc |-> pc]

\* the handlers in progress with one more, with one less, with one further on
Started(task) == tasks (+) SetToBag({task})
Ended(task) == tasks (-) SetToBag({task})
Awaiting(task, pc) == Ended(task) (+) SetToBag({[task EXCEPT !.pc = pc]})

\* how the await of a contract call ends: the transaction is submitted, the
\* user rejects the signature request, or the call fails otherwise
SignOutcomes == {"submitted", "ACTION_REJECTED", "CALL_EXCEPTION"}

\* how tx.wait() ends: the receipt of a mined transaction, or CALL_EXCEPTION
\* for a transaction that reverted
WaitOutcomes == {"confirmed", "CALL_EXCEPTION"}

\* the wallet (or the provider behind it) answers the request a handler
\* waits on
Answered(task, outcome) ==
    [wallet EXCEPT !.answer = [op |-> task.op, outcome |-> outcome]]

\* the catch of mintNFT with an error of the code as the user hears of a cancellation
MintCatchStatusAlwaysError(code) ==
    [type |-> "error", message |-> "Failed to mint NFT. Please try again."]

\* the catch of mintNFT
MintCatchStatus(code) ==
    IF code = "ACTION_REJECTED"
    THEN [type |-> "info", message |-> "Transaction cancelled"]
    ELSE [type |-> "error", message |-> "Failed to mint NFT. Please try again."]

\* the catch of handleTransfer
TransferCatchStatus(code) ==
    IF code = "ACTION_REJECTED"
    THEN [type |-> "info", message |-> "Transfer cancelled"]
    ELSE [type |-> "error", message |-> "Failed to transfer NFT. Please try again."]

\* disabled={isMinting || !isCorrectNetwork} of the button shown to the owner
MintButtonEnabled ==
    collection.isOwner /\ ~(collection.isMinting \/ ~collection.isCorrectNetwork)

\* the Send button of a card: rendered for the owner while isTransferring,
\* and without a disabled attribute
SendButtonEnabled(tokenId) ==
    /\ tokenId \in DOMAIN collection.cards
    /\ collection.cards[tokenId].isOwner
    /\ collection.cards[tokenId].isTransferring

\* a card after NFTCard.handleTransfer has returned: setTransferAddress(''),
\* setIsTransferring(false); nothing when the card is no longer mounted
CardsAfterTransfer(tokenId) ==
    IF tokenId \in DOMAIN collection.cards
    THEN [collection.cards EXCEPT ![tokenId].transferAddress = "",
                                  ![tokenId].isTransferring = FALSE]
    ELSE collection.cards

\* the variables no handler of the collection page writes
offPage == <<chain, server, home>>

\* checkNetwork after the wallet's chainChanged event
chainChanged ==
    \E chainId \in {NEXUS_CHAIN_ID_HEX, OtherChainId} :
        /\ chainId # wallet.chainId
        /\ wallet' = [wallet EXCEPT !.chainId = chainId]
        /\ collection' = [collection EXCEPT
                             !.isCorrectNetwork = (chainId = NEXUS_CHAIN_ID_HEX)]
        /\ UNCHANGED <<tasks, sent, offPage>>

\* loadContract, run by the effect once the wallet is connected on the right
\* chain: owner() is compared with the user, the gallery is fetched and shown
loadContract ==
    \E isOwner \in BOOLEAN, owners \in [CardIds -> BOOLEAN] :
        /\ collection.isCorrectNetwork
        /\ ~collection.nftContract
        /\ collection' = [collection EXCEPT
                             !.nftContract = TRUE,
                             !.isOwner = isOwner,
                             !.cards = [t \in CardIds |-> MountedCard(owners[t])]]
        /\ UNCHANGED <<tasks, wallet, sent, offPage>>

\* mintNFT up to its first await: setIsMinting(true), setStatus(info)
mintNFT ==
    /\ MintButtonEnabled
    /\ BagCardinality(tasks) < MaxTasks
    /\ collection' = [collection EXCEPT
                         !.isMinting = TRUE,
                         !.status = [type |-> "info", message |-> "Initiating NFT mint..."]]
    /\ tasks' = Started(Task("mint", 0, "sign"))
    /\ UNCHANGED <<wallet, sent, offPage>>

\* await contractWithSigner.mint() ends
mintSigned ==
    \E task \in BagToSet(tasks), outcome \in SignOutcomes :
        /\ task.op = "mint" /\ task.pc = "sign"
        /\ IF outcome = "submitted"
           THEN /\ tasks' = Awaiting(task, "wait")
                /\ collection' = [collection EXCEPT
                       !.status = [type |-> "info",
                                   message |-> "Minting NFT... Monitoring transaction status..."]]
           ELSE /\ tasks' = Ended(task)
                /\ collection' = [collection EXCEPT
                       !.status = MintCatchStatus(outcome), !.isMinting = FALSE]
        /\ wallet' = Answered(task, outcome)
        /\ UNCHANGED <<sent, offPage>>

\* await tx.wait() ends; after a receipt with status 1 the gallery is fetched again
mintMined ==
    \E task \in BagToSet(tasks), outcome \in WaitOutcomes :
        /\ task.op = "mint" /\ task.pc = "wait"
        /\ IF outcome = "confirmed"
           THEN /\ tasks' = Awaiting(task, "refresh")
                /\ collection' = [collection EXCEPT
                       !.status = [type |-> "success", message |-> "NFT minted successfully"],
                       !.isLoadingNFTs = TRUE, !.cards = NoCards]
           ELSE /\ tasks' = Ended(task)
                /\ collection' = [collection EXCEPT
                       !.status = MintCatchStatus(outcome), !.isMinting = FALSE]
        /\ wallet' = Answered(task, outcome)
        /\ UNCHANGED <<sent, offPage>>

\* await fetchCollectionNFTs(nftContract) ends, then finally setIsMinting(false)
mintRefreshed ==
    \E task \in BagToSet(tasks), owners \in [CardIds -> BOOLEAN] :
        /\ task.op = "mint" /\ task.pc = "refresh"
        /\ tasks' = Ended(task)
        /\ collection' = [collection EXCEPT
               !.isLoadingNFTs = FALSE,
               !.cards = [t \in CardIds |-> MountedCard(owners[t])],
               !.isMinting = FALSE]
        /\ UNCHANGED <<wallet, sent, offPage>>

\* the Transfer NFT button of a card: setIsTransferring(true) shows the form
showTransferForm ==
    \E tokenId \in DOMAIN collection.cards :
        /\ collection.cards[tokenId].isOwner
        /\ ~collection.cards[tokenId].isTransferring
        /\ collection' = [collection EXCEPT !.cards[tokenId].isTransferring = TRUE]
        /\ UNCHANGED <<tasks, wallet, sent, offPage>>

\* onChange of the recipient field: setTransferAddress(e.target.value)
setTransferAddress ==
    \E tokenId \in DOMAIN collection.cards, value \in TypedAddresses :
        /\ collection.cards[tokenId].isOwner
        /\ collection.cards[tokenId].isTransferring
        /\ value # collection.cards[tokenId].transferAddress
        /\ collection' = [collection EXCEPT !.cards[tokenId].transferAddress = value]
        /\ UNCHANGED <<tasks, wallet, sent, offPage>>

\* the Send button: NFTCard.handleTransfer and the page's handleTransfer up
\* to the await of transferFrom
handleTransfer ==
    \E tokenId \in CardIds :
        /\ SendButtonEnabled(tokenId)
        /\ collection.cards[tokenId].transferAddress # ""
        /\ BagCardinality(tasks) < MaxTasks
        /\ tasks' = Started(Task("transfer", tokenId, "sign"))
        /\ collection' = [collection EXCEPT !.cards[tokenId].isTransferring = TRUE]
        /\ UNCHANGED <<wallet, sent, offPage>>

\* await contractWithSigner.transferFrom(userAddress, to, tokenId) ends
transferSigned ==
    \E task \in BagToSet(tasks), outcome \in SignOutcomes :
        /\ task.op = "transfer" /\ task.pc = "sign"
        /\ IF outcome = "submitted"
           THEN /\ tasks' = Awaiting(task, "wait")
                /\ collection' = [collection EXCEPT
                       !.status = [type |-> "info", message |-> "Transferring NFT..."]]
           ELSE /\ tasks' = Ended(task)
                /\ collection' = [collection EXCEPT
                       !.status = TransferCatchStatus(outcome),
                       !.cards = CardsAfterTransfer(task.tokenId)]
        /\ wallet' = Answered(task, outcome)
        /\ UNCHANGED <<sent, offPage>>

\* await tx.wait() ends; after it returned the gallery is fetched again
transferMined ==
    \E task \in BagToSet(tasks), outcome \in WaitOutcomes :
        /\ task.op = "transfer" /\ task.pc = "wait"
        /\ IF outcome = "confirmed"
           THEN /\ tasks' = Awaiting(task, "refresh")
                /\ collection' = [collection EXCEPT
                       !.status = [type |-> "success",
                                   message |-> "NFT transferred successfully"],
                       !.isLoadingNFTs = TRUE, !.cards = NoCards]
           ELSE /\ tasks' = Ended(task)
                /\ collection' = [collection EXCEPT
                       !.status = TransferCatchStatus(outcome),
                       !.cards = CardsAfterTransfer(task.tokenId)]
        /\ wallet' = Answered(task, outcome)
        /\ UNCHANGED <<sent, offPage>>

\* await fetchCollectionNFTs(nftContract) ends: the gallery is shown again,
\* with new cards; the old card's setState calls have no effect
transferRefreshed ==
    \E task \in BagToSet(tasks), owners \in [CardIds -> BOOLEAN] :
        /\ task.op = "transfer" /\ task.pc = "refresh"
        /\ tasks' = Ended(task)
        /\ collection' = [collection EXCEPT
               !.isLoadingNFTs = FALSE,
               !.cards = [t \in CardIds |-> MountedCard(owners[t])]]
        /\ UNCHANGED <<wallet, sent, offPage>>

NextUI ==
    \/ chainChanged
    \/ loadContract
    \/ mintNFT
    \/ mintSigned
    \/ mintMined
    \/ mintRefreshed
    \/ showTransferForm
    \/ setTransferAddress
    \/ handleTransfer
    \/ transferSigned
    \/ transferMined
    \/ transferRefreshed

SpecUI == InitAPI /\ [][NextUI]_vars

-----------------------------------------------------------------------------
(* The home page: the symbol of a collection, the base URI of its metadata *)

LowerLetters ==
    <<"a", "b", "c", "d", "e", "f", "g", "h", "i", "j", "k", "l", "m",
      "n", "o", "p", "q", "r", "s", "t", "u", "v", "w", "x", "y", "z">>
UpperLetters ==
    <<"A", "B", "C", "D", "E", "F", "G", "H", "I", "J", "K", "L", "M",
      "N", "O", "P", "Q", "R", "S", "T", "U", "V", "W", "X", "Y", "Z">>
DecimalDigits == {"0", "1", "2", "3", "4", "5", "6", "7", "8", "9"}

IsLower(c) == \E i \in 1 .. 26 : LowerLetters[i] = c
IsUpper(c) == \E i \in 1 .. 26 : UpperLetters[i] = c

\* \w of a regular expression: a letter, a digit or the underscore
IsWordChar(c) == IsLower(c) \/ IsUpper(c) \/ c \in DecimalDigits \/ c = "_"

\* \s of a regular expression, for the white space of a one-line text field
IsSpaceChar(c) == c = " "

\* [aeiou] with the flag i
IsVowel(c) == c \in {"a", "e", "i", "o", "u", "A", "E", "I", "O", "U"}

UpperChar(c) ==
    IF IsLower(c) THEN UpperLetters[CHOOSE i \in 1 .. 26 : LowerLetters[i] = c] ELSE c

\* String.prototype.toUpperCase
toUpperCase(str) == [i \in 1 .. Len(str) |-> UpperChar(str[i])]

\* String.prototype.slice(0, end)
slice(str, end) == SubSeq(str, 1, IF Len(str) < end THEN Len(str) ELSE end)

\* String.prototype.trim
RECURSIVE trim(_)
trim(str) ==
    IF str = <<>> THEN str
    ELSE IF IsSpaceChar(str[1]) THEN trim(Tail(str))
    ELSE IF IsSpaceChar(str[Len(str)]) THEN trim(SubSeq(str, 1, Len(str) - 1))
    ELSE str

\* str.split(/\s+/): the pieces between the runs of white space; a string
\* that starts or ends with white space has an empty first or last piece
RECURSIVE split(_)
split(str) ==
    IF \A i \in 1 .. Len(str) : ~IsSpaceChar(str[i])
    THEN <<str>>
    ELSE LET first == CHOOSE i \in 1 .. Len(str) :
                          /\ IsSpaceChar(str[i])
                          /\ \A j \in 1 .. (i - 1) : ~IsSpaceChar(str[j])
             rest == {i \in (first + 1) .. Len(str) : ~IsSpaceChar(str[i])}
             next == IF rest = {} THEN Len(str) + 1
                     ELSE CHOOSE i \in rest : \A j \in rest : i <= j
         IN  <<SubSeq(str, 1, first - 1)>> \o split(SubSeq(str, next, Len(str)))

\* a value a function returns, or the TypeError it throws
Returns(value) == [threw |-> FALSE, value |-> value]
Throws == [threw |-> TRUE, value |-> <<>>]

\* words.map(word => word[0].toUpperCase()).join(''): word[0] of an empty
\* word is undefined, and undefined.toUpperCase() throws a TypeError
Initials(words) ==
    IF \E i \in 1 .. Len(words) : words[i] = <<>>
    THEN Throws
    ELSE Returns([i \in 1 .. Len(words) |-> UpperChar(words[i][1])])

\* generateNFTSymbol(name)
generateNFTSymbol(name) ==
    LET words == split(SelectSeq(name, LAMBDA c : IsWordChar(c) \/ IsSpaceChar(c)))
        word == toUpperCase(words[1])
        consonants == SelectSeq(word, LAMBDA c : ~IsVowel(c))
    IN  IF Len(words) = 0 THEN Returns(<<"N", "F", "T">>)
        ELSE IF Len(words) = 1
        THEN (IF Len(word) <= 4 THEN Returns(word)
              ELSE IF Len(consonants) >= 3 THEN Returns(slice(consonants, 4))
              ELSE Returns(slice(word, 4)))
        ELSE IF Initials(words).threw THEN Throws
        ELSE Returns(slice(Initials(words).value, 4))

\* the characters of a string, and the string of its characters
Chars(s) == [i \in 1 .. Len(s) |-> SubSeq(s, i, i)]

RECURSIVE Join(_)
Join(chars) == IF chars = <<>> THEN "" ELSE Head(chars) \o Join(Tail(chars))

\* a getMetadataBaseURI that leaves the tokenId parameter out
getMetadataBaseURIWithoutTokenId(contractAddress) ==
    API_URL[1] \o "/api/metadata/?contract=" \o Join(contractAddress)
\* `${API_URL}/api/metadata/?contract=${contractAddress}&tokenId=`
getMetadataBaseURI(contractAddress) ==
    API_URL[1] \o "/api/metadata/?contract=" \o Join(contractAddress) \o "&tokenId="

\* the position of the first `c` of chars, 0 if there is none
IndexOf(chars, c) ==
    IF \E i \in 1 .. Len(chars) : chars[i] = c
    THEN CHOOSE i \in 1 .. Len(chars) : chars[i] = c /\ \A j \in 1 .. (i - 1) : chars[j] # c
    ELSE 0

\* new URL(url): what stands before the first "?" and what stands after it
UrlPath(url) ==
    IF IndexOf(url, "?") = 0 THEN url ELSE SubSeq(url, 1, IndexOf(url, "?") - 1)
UrlQuery(url) ==
    IF IndexOf(url, "?") = 0 THEN <<>> ELSE SubSeq(url, IndexOf(url, "?") + 1, Len(url))

\* URLSearchParams.get(key): the value of the first key=value pair of the
\* query with that key, null if there is none
RECURSIVE searchParamsGet(_, _)
searchParamsGet(query, key) ==
    LET amp == IndexOf(query, "&")
        pair == IF amp = 0 THEN query ELSE SubSeq(query, 1, amp - 1)
        eq == IndexOf(pair, "=")
        name == IF eq = 0 THEN pair ELSE SubSeq(pair, 1, eq - 1)
        value == IF eq = 0 THEN <<>> ELSE SubSeq(pair, eq + 1, Len(pair))
    IN  IF query = <<>> THEN Null
        ELSE IF name = key THEN Some(value)
        ELSE IF amp = 0 THEN Null
        ELSE searchParamsGet(SubSeq(query, amp + 1, Len(query)), key)

-----------------------------------------------------------------------------
(* The home page: the deployment of a collection *)

\* The model follows one collection: the first one the wallet deploys, at
\* DeployedAddress, with account 1 (the signer) as its owner.  The contract
\* variables are the collection's storage once its deployment is mined, and
\* the form of the home page is followed until that deployment is submitted.
DeployedAddress == <<"0", "x", "A", "b">>
Deployer == 1

\* names typed into the collection name field
SampleNames ==
    << <<"C", "a", "t">>,
       <<" ", "a">>,
       <<"a", " ", "b">>,
       <<"!", "!">>,
       <<"a", "u", "d", "i", "o">>,
       <<"a", " ">>,
       <<"a", " ", " ", "!", " ", "b", " ", "c", " ", "d", " ", "e">>,
       <<" ">>,
       <<"a", "_", "1", "-", "b", "c">> >>

\* a deployNFT that waits on an await before SimpleNFT.deploy, with the
\* nftName of the render it was started from (the name is not read after
\* that call: from there on the handler is a Task)
DeployTask(nftName, pc) == [op |-> "deploy", nftName |-> nftName, pc |-> pc]

\* how wallet_switchEthereumChain (or wallet_addEthereumChain after a 4902)
\* ends: the wallet is on the Nexus chain, or the request is declined or fails
SwitchOutcomes == {"switched", "declined"}

\* disabled={!uploadedImage || !nftName.trim() || isDeploying}
DeployButtonEnabled ==
    ~(~home.hasImage \/ trim(home.nftName) = <<>> \/ home.isDeploying)

\* the deployment transaction of the collection is mined
Deployed == \E d \in sent : d.mined

\* a setBaseURI transaction of deployNFT is submitted and tx.wait() has not returned
Mining == \E task \in BagToSet(tasks) : task.op = "deploy" /\ task.pc = "wait"

\* the catch of deployNFT
DeployNFTCatch(message) ==
    [home EXCEPT !.status = "Deployment failed: " \o message, !.isDeploying = FALSE]

\* the variables no handler of the home page writes
offHome == <<chain, server, collection>>

\* connectWallet: eth_requestAccounts is granted, then checkNetwork
connectWallet ==
    /\ ~home.isConnected
    /\ home' = [home EXCEPT !.isConnected = TRUE,
                            !.isCorrectNetwork = (wallet.chainId = NEXUS_CHAIN_ID_HEX)]
    /\ UNCHANGED <<tasks, wallet, sent, offHome>>

\* checkNetwork after the wallet's chainChanged event
homeChainChanged ==
    \E chainId \in {NEXUS_CHAIN_ID_HEX, OtherChainId} :
        /\ chainId # wallet.chainId
        /\ wallet' = [wallet EXCEPT !.chainId = chainId]
        /\ home' = [home EXCEPT !.isCorrectNetwork = (chainId = NEXUS_CHAIN_ID_HEX)]
        /\ UNCHANGED <<tasks, sent, offHome>>

\* onChange={(e) => setNftName(e.target.value)}
setNftName ==
    \E i \in 1 .. MaxNames :
        /\ sent = {}
        /\ i <= Len(SampleNames)
        /\ home.nftName # SampleNames[i]
        /\ home' = [home EXCEPT !.nftName = SampleNames[i]]
        /\ UNCHANGED <<tasks, wallet, sent, offHome>>

\* handleFileSelect / handleDrop: setUploadedImage(file)
handleFileSelect ==
    /\ sent = {}
    /\ ~home.hasImage
    /\ home' = [home EXCEPT !.hasImage = TRUE]
    /\ UNCHANGED <<tasks, wallet, sent, offHome>>

\* deployNFT up to the chain check: provider.getNetwork() is compared with
\* the Nexus chain
deployNFT ==
    /\ DeployButtonEnabled
    /\ sent = {}
    /\ IF ~home.isConnected
       THEN /\ home' = [home EXCEPT !.status = "Please connect your wallet first"]
            /\ UNCHANGED tasks
       ELSE /\ home' = [home EXCEPT !.isDeploying = TRUE,
                                    !.status = "Preparing deployment..."]
            /\ tasks' = Started(DeployTask(home.nftName,
                                           IF wallet.chainId # NEXUS_CHAIN_ID_HEX
                                           THEN "switchNetwork" ELSE "deploy"))
    /\ UNCHANGED <<wallet, sent, offHome>>

\* await switchNetwork(): true after a switch (with checkNetwork), false
\* after a failure; deployNFT does not look at the value
deploySwitchNetwork ==
    \E task \in BagToSet(tasks), outcome \in SwitchOutcomes :
        /\ task.op = "deploy" /\ task.pc = "switchNetwork"
        /\ wallet' = IF outcome = "switched"
                     THEN [wallet EXCEPT !.chainId = NEXUS_CHAIN_ID_HEX]
                     ELSE wallet
        /\ home' = IF outcome = "switched"
                   THEN [home EXCEPT !.isCorrectNetwork = TRUE]
                   ELSE home
        /\ tasks' = Awaiting(task, "deploy")
        /\ UNCHANGED <<sent, offHome>>

\* SimpleNFT.deploy(nftName, generateNFTSymbol(nftName), owner, overrides):
\* the symbol is computed, then the wallet is asked to sign the deployment
deployContract ==
    \E task \in BagToSet(tasks), outcome \in SignOutcomes :
        /\ task.op = "deploy" /\ task.pc = "deploy"
        /\ LET symbol == generateNFTSymbol(task.nftName)
           IN  IF symbol.threw
               THEN /\ home' = DeployNFTCatch("TypeError")
                    /\ tasks' = Ended(task)
                    /\ UNCHANGED sent
               ELSE IF outcome # "submitted"
               THEN /\ home' = DeployNFTCatch(outcome)
                    /\ tasks' = Ended(task)
                    /\ UNCHANGED sent
               ELSE /\ home' = [home EXCEPT !.status = "Deploying... Transaction"]
                    /\ tasks' = Ended(task) (+) SetToBag({Task("deploy", 0, "waitForDeployment")})
                    /\ sent' = sent \cup {[chainId |-> wallet.chainId,
                                           name |-> task.nftName,
                                           symbol |-> symbol.value,
                                           mined |-> FALSE]}
        /\ UNCHANGED <<wallet, offHome>>

\* await nft.waitForDeployment()
waitForDeployment ==
    \E task \in BagToSet(tasks), outcome \in WaitOutcomes :
        /\ task.op = "deploy" /\ task.pc = "waitForDeployment"
        /\ IF outcome = "confirmed"
           THEN /\ sent' = {[d EXCEPT !.mined = TRUE] : d \in sent}
                /\ tasks' = Awaiting(task, "setBaseURI")
                /\ UNCHANGED home
           ELSE /\ home' = DeployNFTCatch(outcome)
                /\ tasks' = Ended(task)
                /\ UNCHANGED sent
        /\ UNCHANGED <<wallet, offHome>>

\* const tx = await nft.setBaseURI(getMetadataBaseURI(contractAddress))
deploySetBaseURI ==
    \E task \in BagToSet(tasks), outcome \in SignOutcomes :
        /\ task.op = "deploy" /\ task.pc = "setBaseURI"
        /\ IF outcome = "submitted"
           THEN /\ tasks' = Awaiting(task, "wait")
                /\ UNCHANGED home
           ELSE /\ home' = DeployNFTCatch(outcome)
                /\ tasks' = Ended(task)
        /\ UNCHANGED <<wallet, sent, offHome>>

\* the setBaseURI transaction of deployNFT, as the last call of the chain
BaseURITransaction ==
    /\ last.op = "setBaseURI"
    /\ last.caller = Deployer
    /\ last.args = <<getMetadataBaseURI(DeployedAddress)>>

\* the submitted setBaseURI transaction is mined
SetBaseURIMined ==
    /\ Mining
    /\ ~BaseURITransaction
    /\ setBaseURI(Deployer, getMetadataBaseURI(DeployedAddress))

\* await tx.wait(), then setStatus('Uploading collection image...')
deployWait ==
    \E task \in BagToSet(tasks) :
        /\ task.op = "deploy" /\ task.pc = "wait"
        /\ BaseURITransaction
        /\ IF last.err = NoError
           THEN /\ home' = [home EXCEPT !.status = "Uploading collection image..."]
                /\ tasks' = Awaiting(task, "upload")
           ELSE /\ home' = DeployNFTCatch("CALL_EXCEPTION")
                /\ tasks' = Ended(task)
        /\ UNCHANGED <<wallet, sent, offHome>>

\* the files chosen as collection image: the file input takes any file
ChosenFiles == {file \in Files : file # Null /\ file[1].name = <<"a", ".", "p">>}

\* fetch('/api/upload', {method: 'POST', body: formData}): whatever the
\* answer, the success status is set and router.push leaves the home page
deployUpload ==
    \E task \in BagToSet(tasks), file \in ChosenFiles, fault \in UploadFaults :
        LET request == [file |-> file, contract |-> Some(DeployedAddress), fault |-> fault]
        IN  /\ task.op = "deploy" /\ task.pc = "upload"
            /\ Waiting
            /\ Cardinality(StoreAfterUpload(request)) <= MaxAssets
            /\ store' = StoreAfterUpload(request)
            /\ latest' = IF UploadNotWritten(request) THEN latest
                          ELSE {a \in latest : a.ns # UploadedAsset(request).ns}
                                  \cup {UploadedAsset(request)}
            /\ response' = Upload(request)
            /\ tasks' = Ended(task)
            /\ home' = HomeMounted
            /\ UNCHANGED <<now, served, chain, collection, wallet, sent>>

\* mint() of the deployed collection, sent by an account
MintOfCollection ==
    \E caller \in EOA :
        /\ Deployed /\ ~Mining
        /\ _nextTokenId <= MaxTokens
        /\ mint(caller)

\* setBaseURI of the deployed collection, sent by its owner past the page
SetBaseURIByOwner ==
    \E baseURI \in URIS :
        /\ Deployed /\ ~Mining
        /\ setBaseURI(_owner, baseURI)

\* fetch(url) as the servers answer it: the metadata endpoint for its URL
\* (with or without the slash Next.js redirects from), the page itself for
\* the empty URL, another host for the rest
fetch(url, fault) ==
    IF UrlPath(url) \in {Chars(API_URL[1] \o "/api/metadata/"),
                         Chars(API_URL[1] \o "/api/metadata")}
    THEN MetadataByQuery([tokenId |-> searchParamsGet(UrlQuery(url), Chars("tokenId")),
                          contract |-> searchParamsGet(UrlQuery(url), Chars("contract")),
                          fault |-> fault])
    ELSE Response(IF url = <<>> THEN "collection/[address]" ELSE "(another host)",
                  [url |-> url], 200, [html |-> TRUE], NoCacheControl)

\* fetchCollectionNFTs, for token i of 1..totalSupply():
\* const tokenURI = await contract.tokenURI(i); await fetch(tokenURI)
fetchTokenMetadata ==
    \E i \in 1 .. totalSupply, fault \in StoreFaults :
        /\ Deployed
        /\ Waiting
        /\ response' = fetch(Chars(tokenURI(i).ret), fault)
        /\ UNCHANGED <<store, now, served, latest, chain, browser>>

NextHome ==
    \/ connectWallet
    \/ homeChainChanged
    \/ setNftName
    \/ handleFileSelect
    \/ deployNFT
    \/ deploySwitchNetwork
    \/ deployContract
    \/ waitForDeployment
    \/ deploySetBaseURI
    \/ SetBaseURIMined
    \/ deployWait
    \/ deployUpload
    \/ MintOfCollection
    \/ SetBaseURIByOwner
    \/ fetchTokenMetadata
    \/ Send

SpecHome == InitAPI /\ [][NextHome]_vars

-----------------------------------------------------------------------------
(* The ledger's view: what is in effect when no transaction is in progress *)

\* the storage a transaction in progress would leave if it reverted
Committed == IF stack = <<>> THEN Snapshot ELSE stack[1].snap

\* the token IDs a view may be asked about
Ids == 0 .. (_nextTokenId + 1)

IsMinted(tokenId) == tokenId \in 1 .. (_nextTokenId - 1)

\* the last call has returned without reverting
LastReturned(op) == last.op = op /\ last.err = NoError

\* the last call has reverted
LastReverted(op) == last.op = op /\ last.err \notin {NoError, Pending}

MetadataFrozenError == Revert("Error", <<"Metadata is frozen">>)
Unauthorized(account) == Revert("OwnableUnauthorizedAccount", <<account>>)

-----------------------------------------------------------------------------
(* C1 *)

\* C1: the IDs handed out by the mints in effect, taken in the order of the
\* calls, are 1, 2, 3, ...: the i-th is i (increasing, from 1, no gap, no
\* repeat), whatever calls come between them and whichever mints revert; a
\* mint that returns returns one of these IDs, and that token has an owner.
C1_MintIdsSequential ==
    /\ \A i \in 1 .. Len(minted) : minted[i] = i /\ _ownerOf(i) # ZeroAddress
    /\ LastReturned("mint") => last.ret \in 1 .. Len(minted)

\* two mints are in effect, the second made from inside the callback of the
\* first: the first call got ID 1 and is the one that returned last
C1_Witness ==
    /\ stack = <<>>
    /\ minted = <<1, 2>>
    /\ LastReturned("mint")
    /\ last.ret = 1

-----------------------------------------------------------------------------
(* C2 *)

\* C2: whenever no transaction is in progress, totalSupply() is the number of
\* mints in effect (0 after deployment); it changes with them and with
\* nothing else.
C2_TotalSupplyCountsMints ==
    /\ stack = <<>> => totalSupply = Len(minted)
    /\ last.op = "constructor" => totalSupply = 0

\* two tokens minted, and the last call was not a mint
C2_Witness ==
    /\ stack = <<>>
    /\ totalSupply = 2
    /\ last.op \in {"transferFrom", "setBaseURI", "freezeMetadata"}
    /\ last.err = NoError

-----------------------------------------------------------------------------
(* C3 *)

\* C3 as stated: once the metadata is frozen, a setBaseURI call by any caller
\* is rejected with "Metadata is frozen".
C3_Original ==
    (last.op = "setBaseURI" /\ _metadataFrozen) => last.err = MetadataFrozenError

\* C3 amended: once the metadata is frozen, every setBaseURI call is
\* rejected: with "Metadata is frozen" when the owner calls, and with
\* OwnableUnauthorizedAccount(caller) when any other address calls (the
\* owner check comes first).
C3_FrozenRejectsSetBaseURI ==
    (last.op = "setBaseURI" /\ _metadataFrozen) =>
        last.err = IF last.caller = _owner THEN MetadataFrozenError
                   ELSE Unauthorized(last.caller)

\* the owner's setBaseURI was rejected because the metadata is frozen
C3_Witness ==
    /\ _metadataFrozen
    /\ last.op = "setBaseURI"
    /\ last.caller = _owner
    /\ last.err = MetadataFrozenError

-----------------------------------------------------------------------------
(* C4 *)

\* C4: a setBaseURI or freezeMetadata call by an address that is not the
\* owner reverts with OwnableUnauthorizedAccount carrying the caller's
\* address, and leaves the base URI and the frozen flag as they were.
C4_NonOwnerRejected ==
    [][(last'.op \in {"setBaseURI", "freezeMetadata"} /\ last'.caller # _owner) =>
          /\ last'.err = Unauthorized(last'.caller)
          /\ _baseTokenURI' = _baseTokenURI
          /\ _metadataFrozen' = _metadataFrozen]_vars

\* a freezeMetadata by an address that is not the owner was rejected
C4_Witness ==
    /\ last.op = "freezeMetadata"
    /\ last.caller # _owner
    /\ last.err = Unauthorized(last.caller)
    /\ ~_metadataFrozen

-----------------------------------------------------------------------------
(* C5 *)

\* C5 as stated: no call changes the owner of the collection.
C5_Original == [][_owner' = _owner]_vars

\* C5 amended: the owner of the collection changes only by a transferOwnership
\* or a renounceOwnership that the current owner calls and that returns; no
\* other function (mint, setBaseURI, freezeMetadata, the transfers, the
\* approvals) changes it.
C5_OwnerChangesOnlyByOwnable ==
    [][_owner' # _owner =>
          /\ last'.op \in {"transferOwnership", "renounceOwnership"}
          /\ last'.err = NoError
          /\ last'.caller = _owner]_vars

\* the owner handed the collection to another address
C5_Witness ==
    /\ LastReturned("transferOwnership")
    /\ \E e \in {logs[i] : i \in 1 .. Len(logs)} :
          /\ e.ev = "OwnershipTransferred"
          /\ e.args[1] = last.caller
          /\ e.args[2] = _owner
          /\ e.args[1] # e.args[2]

-----------------------------------------------------------------------------
(* C6 *)

\* C6: the frozen flag is false after deployment, and once it is true in the
\* ledger's state it is true in every later one, whatever is called.
C6_FrozenIsLatch ==
    /\ [](last.op = "constructor" => ~isMetadataFrozen)
    /\ [][Committed._metadataFrozen => Committed'._metadataFrozen]_vars

\* the metadata is frozen and calls that returned followed the freeze
C6_Witness ==
    /\ stack = <<>>
    /\ isMetadataFrozen
    /\ last.op \in {"mint", "transferOwnership", "renounceOwnership"}
    /\ last.err = NoError

-----------------------------------------------------------------------------
(* C7 *)

\* the decimal numerals, written out
Numeral ==
    <<"1", "2", "3", "4", "5", "6", "7", "8", "9", "10",
      "11", "12", "13", "14", "15", "16", "17", "18", "19", "20">>

\* C7 as stated: for every minted token and every base URI, the empty one
\* included, tokenURI returns the base URI followed by the decimal ID.
C7_Original ==
    \A id \in 1 .. (_nextTokenId - 1) :
        tokenURI(id) = [err |-> NoError, ret |-> _baseTokenURI \o Numeral[id]]

\* C7 amended: for every minted token, tokenURI returns the current base URI
\* followed by the unpadded decimal ID when the base URI is not empty
\* (whether it was set before or after the mint), and the empty string when
\* the base URI is empty, as it is right after deployment.
C7_TokenURIIsBasePlusId ==
    \A id \in 1 .. (_nextTokenId - 1) :
        tokenURI(id) = [err |-> NoError,
                        ret |-> IF _baseTokenURI = "" THEN ""
                                ELSE _baseTokenURI \o Numeral[id]]

\* ten tokens minted and the base URI set after them
C7_Witness ==
    /\ _nextTokenId > 10
    /\ LastReturned("setBaseURI")
    /\ tokenURI(10) = [err |-> NoError, ret |-> "https://x/10"]
    /\ tokenURI(1) = [err |-> NoError, ret |-> "https://x/1"]

-----------------------------------------------------------------------------
(* C8 *)

\* C8: in every state, tokenURI of an ID that was not minted (0, or an ID not
\* below the counter) reverts with ERC721NonexistentToken(id).
C8_UnmintedTokenURIReverts ==
    \A id \in Ids :
        (id = 0 \/ id >= _nextTokenId) =>
            tokenURI(id).err = Revert("ERC721NonexistentToken", <<id>>)

\* one token minted under a base URI: its URI resolves, the next ID's does not
C8_Witness ==
    /\ stack = <<>>
    /\ _nextTokenId = 2
    /\ tokenURI(1) = [err |-> NoError, ret |-> "https://x/1"]
    /\ tokenURI(2).err = Revert("ERC721NonexistentToken", <<2>>)
    /\ tokenURI(0).err = Revert("ERC721NonexistentToken", <<0>>)

-----------------------------------------------------------------------------
(* C9 *)

\* this step is a call of mint: the step in which the token is assigned
MintCalled == last'.op = "mint" /\ Len(stack') >= Len(stack)

\* this step ends a mint call (it returns or reverts)
MintEnds == last'.op = "mint" /\ last'.err # Pending

\* the balances when the call that ends in this step was made
BalancesAtCall ==
    IF Len(stack') < Len(stack) THEN Top.snap._balances ELSE _balances

\* the balances are those of `before`, with one token more for the caller
CallerCredited(before) ==
    \A a \in Addr :
        Read(_balances', a) =
            Read(before, a) + (IF a = last'.caller THEN 1 ELSE 0)

\* C9 as stated: a mint by any caller succeeds, the new token is the
\* caller's, the caller's balance grows by 1 and no other balance changes.
C9_Original ==
    [][MintEnds =>
          /\ last'.err = NoError
          /\ Read(_owners', last'.ret) = last'.caller
          /\ CallerCredited(BalancesAtCall)]_vars

\* C9 amended: mint checks neither the caller nor the frozen flag.  When it
\* assigns the token, before any receiver callback, the new token is the
\* caller's, the caller's balance is 1 more than before the call and no other
\* balance changes; for a caller without code mint returns in that state,
\* and always succeeds.  A mint by a contract reverts only when the caller's
\* onERC721Received does not accept the token: with
\* ERC721InvalidReceiver(caller), or with the callback's own revert reason.
C9_MintIsOpenToAll ==
    [][/\ MintCalled =>
             /\ last'.err = (IF last'.caller \in EOA THEN NoError ELSE Pending)
             /\ Read(_owners', _nextTokenId) = last'.caller
             /\ CallerCredited(_balances)
             /\ last'.err = NoError => last'.ret = _nextTokenId
       /\ (MintEnds /\ last'.err # NoError) =>
             /\ last'.caller \in CONTRACT
             /\ Len(stack') < Len(stack)
             /\ \/ last'.err = Revert("ERC721InvalidReceiver", <<last'.caller>>)
                \/ last'.err.name = "Error"
      ]_vars

\* an address that is not the owner minted after the metadata was frozen
C9_Witness ==
    /\ stack = <<>>
    /\ LastReturned("mint")
    /\ last.caller # _owner
    /\ _owner # ZeroAddress
    /\ _metadataFrozen
    /\ _ownerOf(last.ret) = last.caller
    /\ balanceOf(last.caller).ret = 2

-----------------------------------------------------------------------------
(* C10 *)

\* the caller is not the token's owner, not the owner's operator and not the
\* token's approved address (read from the storage, not from _isAuthorized)
NotApproved(caller, tokenId) ==
    /\ caller # Read(_owners, tokenId)
    /\ <<Read(_owners, tokenId), caller>> \notin _operatorApprovals
    /\ Read(_tokenApprovals, tokenId) # caller

\* the balances after this step are those before it, with one token less for
\* `from` and one more for `to`
Moved(from, to) ==
    \A a \in Addr :
        Read(_balances', a) = Read(_balances, a)
            - (IF a = from THEN 1 ELSE 0) + (IF a = to THEN 1 ELSE 0)

\* C10 as stated, for the call made in this step: an unapproved caller is
\* rejected as unauthorized and no owner or balance changes; a never-minted
\* token is rejected as not found; a transfer by the token's owner makes `to`
\* the owner, takes 1 from from's balance and adds 1 to to's.
C10_OriginalOutcome(caller, from, to, tokenId) ==
    IF ~IsMinted(tokenId) THEN last'.err.name = "ERC721NonexistentToken"
    ELSE IF NotApproved(caller, tokenId)
         THEN /\ last'.err.name = "ERC721InsufficientApproval"
              /\ UNCHANGED <<_owners, _balances>>
    ELSE caller = Read(_owners, tokenId) =>
              /\ last'.err = NoError
              /\ Read(_owners', tokenId) = to
              /\ Read(_balances', from) = Read(_balances, from) - 1
              /\ Read(_balances', to) = Read(_balances, to) + 1

\* C10 as stated, for every transferFrom call.
C10_Original ==
    [][last'.op = "transferFrom" =>
          C10_OriginalOutcome(last'.caller, last'.args[1],
                              last'.args[2], last'.args[3])]_vars

\* C10 amended, for the call made in this step: the zero address as recipient
\* is rejected first, with ERC721InvalidReceiver; for another recipient a
\* never-minted token is rejected with ERC721NonexistentToken(tokenId) and an
\* unapproved caller with ERC721InsufficientApproval(caller, tokenId); the
\* token's owner transfers when `from` is the owner.  A rejected call changes
\* no owner and no balance; a call that returns moved the token from its
\* owner `from` to `to`, which is its owner now, took 1 from from's balance
\* and added 1 to to's when they differ, and changed no other balance.
C10_Outcome(caller, from, to, tokenId) ==
    /\ IF to = ZeroAddress
       THEN last'.err = Revert("ERC721InvalidReceiver", <<ZeroAddress>>)
       ELSE IF ~IsMinted(tokenId)
            THEN last'.err = Revert("ERC721NonexistentToken", <<tokenId>>)
       ELSE IF NotApproved(caller, tokenId)
            THEN last'.err = Revert("ERC721InsufficientApproval", <<caller, tokenId>>)
       ELSE (caller = Read(_owners, tokenId) /\ from = caller) => last'.err = NoError
    /\ last'.err # NoError => UNCHANGED <<_owners, _balances>>
    /\ last'.err = NoError =>
          /\ Read(_owners, tokenId) = from
          /\ Read(_owners', tokenId) = to
          /\ Moved(from, to)

\* C10 amended, for every transferFrom call.
C10_TransferFrom ==
    [][last'.op = "transferFrom" =>
          C10_Outcome(last'.caller, last'.args[1],
                      last'.args[2], last'.args[3])]_vars

\* a caller that is neither owner nor approved was rejected, and the owner
\* of the token is still the address the call named as `from`
C10_Witness ==
    /\ last.op = "transferFrom"
    /\ IsMinted(last.args[3])
    /\ last.args[2] # ZeroAddress
    /\ NotApproved(last.caller, last.args[3])
    /\ _ownerOf(last.args[3]) = last.args[1]
    /\ last.err = Revert("ERC721InsufficientApproval", <<last.caller, last.args[3]>>)

-----------------------------------------------------------------------------
(* C11 *)

\* the call that ends in this step reverts
Rejected == last'.err \notin {NoError, Pending}

\* C11: a call that is rejected (setBaseURI or freezeMetadata by a non-owner,
\* setBaseURI after the freeze, a transfer or approval that reverts, a mint
\* or safe transfer whose recipient refuses the token) leaves the whole
\* storage as it was when the call was made: the counter, the base URI, the
\* frozen flag, the owner, every token's owner, the balances and approvals
\* (tokenURI, ownerOf and the other views read nothing else); the ID a
\* rejected mint had taken is the next ID again and has no owner.
C11_RejectedLeavesState ==
    [][Rejected =>
          IF Len(stack') < Len(stack)
          THEN /\ _nextTokenId' = Top.snap._nextTokenId
               /\ _baseTokenURI' = Top.snap._baseTokenURI
               /\ _metadataFrozen' = Top.snap._metadataFrozen
               /\ _owner' = Top.snap._owner
               /\ _owners' = Top.snap._owners
               /\ _balances' = Top.snap._balances
               /\ _tokenApprovals' = Top.snap._tokenApprovals
               /\ _operatorApprovals' = Top.snap._operatorApprovals
               /\ Top.op = "mint" =>
                     /\ _nextTokenId' = Top.tokenId
                     /\ \A id \in Ids : id >= Top.tokenId => _ownerOf(id)' = ZeroAddress
          ELSE UNCHANGED storage
      ]_vars

\* after one mint, the mint of a contract that refused its token was undone
C11_Witness ==
    /\ stack = <<>>
    /\ last.op = "mint"
    /\ last.err = Revert("ERC721InvalidReceiver", <<last.caller>>)
    /\ minted = <<1>>
    /\ _nextTokenId = 2
    /\ _ownerOf(2) = ZeroAddress

-----------------------------------------------------------------------------
(* C12 *)

\* the owner of a token in the ledger's state
CommittedOwner(tokenId) == Read(Committed._owners, tokenId)

\* C12: every token minted by a mint in effect has a non-zero owner and a
\* tokenURI that does not fail; a mint assigns an ID that has no owner; a
\* token that has an owner in the ledger's state has one in every later
\* state, and its owner changes only in a transaction that holds a Transfer
\* of that token from a non-zero address (a successful transfer).
C12_MintedTokensStay ==
    /\ [](\A i \in 1 .. Len(minted) :
             /\ ownerOf(i).err = NoError
             /\ ownerOf(i).ret # ZeroAddress
             /\ tokenURI(i).err = NoError)
    /\ [][/\ MintCalled => _ownerOf(_nextTokenId) = ZeroAddress
          /\ Committed._owners' # Committed._owners =>
                \A id \in Ids :
                   (CommittedOwner(id) # ZeroAddress
                       /\ CommittedOwner(id)' # CommittedOwner(id)) =>
                       /\ CommittedOwner(id)' # ZeroAddress
                       /\ \E k \in 1 .. Len(logs') :
                             /\ logs'[k].ev = "Transfer"
                             /\ logs'[k].args[1] # ZeroAddress
                             /\ logs'[k].args[3] = id
         ]_vars

\* two tokens are minted and token 1 has just changed hands: it has its new
\* owner and its tokenURI resolves
C12_Witness ==
    /\ stack = <<>>
    /\ minted = <<1, 2>>
    /\ LastReturned("transferFrom")
    /\ last.args[3] = 1
    /\ last.args[1] # last.args[2]
    /\ ownerOf(1).ret = last.args[2]
    /\ tokenURI(1).err = NoError

-----------------------------------------------------------------------------
(* C13 *)

\* C13: a freezeMetadata by the owner on a collection that is already frozen
\* returns without error and changes nothing in the storage.
C13_FreezeIsIdempotent ==
    [][(last'.op = "freezeMetadata" /\ last'.caller = _owner /\ _metadataFrozen) =>
          /\ last'.err = NoError
          /\ _metadataFrozen'
          /\ UNCHANGED storage]_vars

\* the owner, a contract, froze the metadata again from inside the callback
\* of a mint it made when the collection was already frozen
C13_Witness ==
    /\ stack # <<>>
    /\ stack[1].snap._metadataFrozen
    /\ LastReturned("freezeMetadata")
    /\ last.caller = _owner
    /\ _metadataFrozen

-----------------------------------------------------------------------------
(* C14 *)

\* C14: while a mint is inside the recipient's callback no other mint starts:
\* at most one of the calls in progress is a mint.
C14_NoReentrantMint ==
    Cardinality({i \in 1 .. Len(stack) : stack[i].op = "mint"}) <= 1

-----------------------------------------------------------------------------
(* C15 *)

\* the number of times the transaction's events hold `e` after this step
Emitted(e) == Cardinality({k \in 1 .. Len(logs') : logs'[k] = e})

\* C15: a mint that returns ID t has emitted, in its transaction, exactly one
\* Transfer(0, caller, t) and exactly one MetadataUpdate(t), the Transfer
\* first; a mint that reverts leaves neither event for the ID it had taken.
C15_MintEvents ==
    [][MintEnds =>
          IF last'.err = NoError
          THEN /\ Emitted(Event("Transfer", <<ZeroAddress, last'.caller, last'.ret>>)) = 1
               /\ Emitted(Event("MetadataUpdate", <<last'.ret>>)) = 1
               /\ logs'[Len(logs')] = Event("MetadataUpdate", <<last'.ret>>)
          ELSE /\ Emitted(Event("Transfer", <<ZeroAddress, last'.caller, _nextTokenId'>>)) = 0
               /\ Emitted(Event("MetadataUpdate", <<_nextTokenId'>>)) = 0
      ]_vars

\* a contract minted token 1 and, inside its callback, token 2: the
\* transaction holds the two events of each
C15_Witness ==
    /\ stack = <<>>
    /\ LastReturned("mint")
    /\ last.ret = 1
    /\ logs = <<Event("Transfer", <<ZeroAddress, last.caller, 1>>),
                Event("Transfer", <<ZeroAddress, last.caller, 2>>),
                Event("MetadataUpdate", <<2>>),
                Event("MetadataUpdate", <<1>>)>>

-----------------------------------------------------------------------------
(* The metadata and image endpoints, as a client sees them *)

\* the last request was a metadata request (to either handler)
MetadataRequested == response.endpoint \in {"metadata", "metadata/[tokenId]"}

\* the last response carries a metadata document
IsDocument == MetadataRequested /\ response.status = 200

\* a request parameter that is missing: not given, or given as the empty string
Missing(param) == param = Null \/ param = Some(<<>>)

\* an attribute of the document in the response
Attribute(traitType) ==
    LET k == CHOOSE i \in 1 .. Len(response.body.attributes) :
                 response.body.attributes[i].trait_type = traitType
    IN  response.body.attributes[k].value

\* the addresses of the requests, in lower case
LowerCased(address) ==
    CASE address = <<"0", "x", "A", "b">> -> <<"0", "x", "a", "b">>
      [] address = <<"0", "x", "a", "b">> -> <<"0", "x", "a", "b">>
      [] address = <<"0", "x", "C">> -> <<"0", "x", "c">>

\* the collection assets the store holds for the address of the last request
AssetsOfRequest ==
    {a \in store : /\ a.ns = LowerCased(response.request.contract[1])
                   /\ startsWith(a.name, CollectionPrefix)}

\* the generated-image endpoint URL of the token of the last request
GeneratedURLOfRequest ==
    <<"http://localhost:3000", "/api/image/">> \o response.request.tokenId[1]

-----------------------------------------------------------------------------
(* C16 *)

\* C16: in a metadata document, when the store holds a collection asset
\* under the lower-cased contract address and no store operation fails, the
\* image is the download URL of such an asset and Image Type is "Uploaded";
\* otherwise the image is <API_URL>/api/image/<tokenId> and Image Type is
\* "Generated".  Image Type is "Uploaded" exactly when the image is not the
\* generated URL.
C16_ImageFollowsUpload ==
    IsDocument =>
        /\ IF AssetsOfRequest # {} /\ response.request.fault = "none"
           THEN /\ \E a \in AssetsOfRequest :
                      response.body.image = getDownloadURL(a.ns, a.name)
                /\ Attribute("Image Type") = "Uploaded"
           ELSE /\ response.body.image = GeneratedURLOfRequest
                /\ Attribute("Image Type") = "Generated"
        /\ Attribute("Image Type") \in {"Uploaded", "Generated"}
        /\ (Attribute("Image Type") = "Uploaded") <=>
               (response.body.image # GeneratedURLOfRequest)

\* a request with the address in mixed case got the image uploaded for it
C16_Witness ==
    /\ IsDocument
    /\ response.request.contract = Some(<<"0", "x", "A", "b">>)
    /\ \E a \in store : a.ns = <<"0", "x", "a", "b">>
    /\ Attribute("Image Type") = "Uploaded"
    /\ response.body.image # GeneratedURLOfRequest

-----------------------------------------------------------------------------
(* C17 *)

\* C17: a metadata request with its parameters that meets a failure of the
\* asset store (getStorage, listAll or getDownloadURL fails) is answered
\* with status 200 and a document whose image is the generated-image URL of
\* the token.
C17_StoreFailureFallsBack ==
    (/\ MetadataRequested
     /\ ~Missing(response.request.contract)
     /\ ~Missing(response.request.tokenId)
     /\ response.request.fault # "none") =>
        /\ response.status = 200
        /\ response.body.image = GeneratedURLOfRequest
        /\ Attribute("Image Type") = "Generated"

\* the store holds the collection's image, its URL could not be resolved and
\* the document has the generated image
C17_Witness ==
    /\ IsDocument
    /\ response.request.fault = "getDownloadURL"
    /\ AssetsOfRequest # {}
    /\ response.body.image = GeneratedURLOfRequest

-----------------------------------------------------------------------------
(* C18 *)

\* C18: a metadata request whose contract address or token ID is missing is
\* answered with status 400 and an error instead of a document; a request
\* with both is never answered with 400.
C18_MissingParameterIs400 ==
    MetadataRequested =>
        IF Missing(response.request.contract) \/ Missing(response.request.tokenId)
        THEN /\ response.status = 400
             /\ DOMAIN response.body = {"error"}
        ELSE response.status # 400

\* a request with a contract address and no token ID was answered with 400
C18_Witness ==
    /\ response.endpoint = "metadata"
    /\ response.request.tokenId = Null
    /\ ~Missing(response.request.contract)
    /\ response.status = 400
    /\ response.body = [error |-> "Token ID is required"]

-----------------------------------------------------------------------------
(* C19 *)

\* the directives of the Cache-Control header of the last response
Directives == {response.cacheControl[i] : i \in 1 .. Len(response.cacheControl)}

-----------------------------------------------------------------------------
(* C20 *)

-----------------------------------------------------------------------------
(* C21 *)

\* this step is the answer to an upload request
UploadAnswered == Waiting /\ response'.endpoint = "upload"

\* the upload request answered in this step lacks the file or the contract
\* address, or its file is no image
UploadInvalid ==
    \/ response'.request.file = Null
    \/ Missing(response'.request.contract)
    \/ Len(response'.request.file[1].type) < 6
    \/ SubSeq(response'.request.file[1].type, 1, 6) # <<"i", "m", "a", "g", "e", "/">>

\* the names of the files of the requests, sanitized and prefixed
ExpectedName(name) ==
    CASE name = <<"a", ".", "p">> ->
            <<"c", "o", "l", "l", "e", "c", "t", "i", "o", "n", "-", "a", ".", "p">>
      [] name = <<"a", " ", "#", ".", "p">> ->
            <<"c", "o", "l", "l", "e", "c", "t", "i", "o", "n", "-", "a", ".", "p">>
      [] name = <<"b">> ->
            <<"c", "o", "l", "l", "e", "c", "t", "i", "o", "n", "-", "b">>

\* the object the upload answered in this step is to write
ExpectedAsset ==
    [ns |-> LowerCased(response'.request.contract[1]),
     name |-> ExpectedName(response'.request.file[1].name)]

\* the upload answered in this step wrote its object and answered 200 with
\* the object's URL and path
StoredAndAnswered ==
    /\ ExpectedAsset \in store'
    /\ store' \ store \subseteq {ExpectedAsset}
    /\ response'.status = 200
    /\ response'.body.filename = getDownloadURL(ExpectedAsset.ns, ExpectedAsset.name)
    /\ response'.body.path =
          <<"collections/">> \o ExpectedAsset.ns \o <<"/">> \o ExpectedAsset.name

-----------------------------------------------------------------------------
(* C22 *)

\* C22: under each lower-cased contract address the asset store holds at most
\* one asset whose name starts with "collection-".
C22_OneCollectionAssetPerAddress ==
    \A a \in store, b \in store :
        (/\ a.ns = b.ns
         /\ startsWith(a.name, CollectionPrefix)
         /\ startsWith(b.name, CollectionPrefix)) => a = b

-----------------------------------------------------------------------------
(* C23 *)

\* C23: a metadata document resolved without store fault for an address for
\* which uploads were written has as image the URL of the object written
\* last for that address.
C23_LastWriteWins ==
    (IsDocument /\ response.request.fault = "none") =>
        \A a \in latest :
            a.ns = LowerCased(response.request.contract[1]) =>
                response.body.image = getDownloadURL(a.ns, a.name)

-----------------------------------------------------------------------------
(* C24 *)

\* how many handlers of the function and token wait for the signature or for
\* the transaction to be mined
Outstanding(op, tokenId) ==
    CopiesIn(Task(op, tokenId, "sign"), tasks) + CopiesIn(Task(op, tokenId, "wait"), tasks)

\* C24: at most one mint started from the mint button is pending, and the
\* button is disabled while it is; at most one transfer of a token started
\* from its Send button is pending, and the button is disabled while it is.
C24_OneOutstandingTransaction ==
    /\ Outstanding("mint", 0) <= 1
    /\ Outstanding("mint", 0) = 1 => ~MintButtonEnabled
    /\ \A tokenId \in CardIds :
          /\ Outstanding("transfer", tokenId) <= 1
          /\ Outstanding("transfer", tokenId) = 1 => ~SendButtonEnabled(tokenId)

-----------------------------------------------------------------------------
(* C25 *)

\* how many handlers wait for a signature or for a transaction to be mined
PendingCount ==
    BagCardinality([t \in {x \in BagToSet(tasks) : x.pc # "refresh"} |-> tasks[t]])

\* in this step the transaction of a mint or of a transfer ends: it is
\* rejected, it fails or it is confirmed
TransactionEnds == PendingCount' < PendingCount

\* C25: when a mint or a transfer of the collection page ends with the user's
\* rejection of the signature request (ACTION_REJECTED) the status set is of
\* type 'info'; when it ends with another failure the status set is of type
\* 'error'; a status of type 'success' is set only when the transaction is
\* confirmed, and then it is.
C25_StatusTellsCancellationFromFailure ==
    [][/\ TransactionEnds =>
            /\ wallet'.answer.outcome = "ACTION_REJECTED" =>
                  collection'.status.type = "info"
            /\ wallet'.answer.outcome = "CALL_EXCEPTION" =>
                  collection'.status.type = "error"
            /\ wallet'.answer.outcome = "confirmed" =>
                  collection'.status.type = "success"
       /\ (collection'.status # collection.status
              /\ collection'.status.type = "success") =>
            TransactionEnds /\ wallet'.answer.outcome = "confirmed"
      ]_vars

\* the user has rejected the signature request of a transfer: the page says
\* that the transfer was cancelled
C25_Witness ==
    /\ wallet.answer.op = "transfer"
    /\ wallet.answer.outcome = "ACTION_REJECTED"
    /\ collection.status = [type |-> "info", message |-> "Transfer cancelled"]
    /\ collection.isMinting

-----------------------------------------------------------------------------
(* C26 *)

\* hash*31 + charCode modulo 2^32, read as a signed 32-bit integer; computed
\* on the two 16-bit halves of the hash
SpecFoldStep(hash, charCode) ==
    LET low == hash % 65536
        high == (hash \div 65536) % 65536
        lowSum == low * 31 + charCode
        newLow == lowSum % 65536
        newHigh == (high * 31 + lowSum \div 65536) % 65536
    IN  IF newHigh >= 32768 THEN (newHigh - 65536) * 65536 + newLow
        ELSE newHigh * 65536 + newLow

RECURSIVE SpecFold(_, _)
SpecFold(hash, chars) ==
    IF chars = <<>> THEN hash
    ELSE SpecFold(SpecFoldStep(hash, charCodeAt(chars[1])), Tail(chars))

\* abs(hash) mod 360; for a negative hash, abs(hash) is (-(hash + 1)) + 1
SpecHue(hash) ==
    IF hash < 0 THEN (((-(hash + 1)) % 360) + 1) % 360 ELSE hash % 360

\* abs(hash) mod 5
AbsOf5(hash) ==
    IF hash < 0 THEN (((-(hash + 1)) % 5) + 1) % 5 ELSE hash % 5

\* C26: for the token ID of every image served, the hash the code computes
\* with ((acc << 5) - acc + charCode) | 0 is the fold of hash*31 + charCode
\* modulo 2^32 as a signed 32-bit integer from 0, and the hue of the image's
\* colour is abs(hash) mod 360 and lies in 0 .. 359; the pattern has
\* 3 + abs(hash) mod 5 circles.
C26_HashAndHue ==
    (response.endpoint = "image/[tokenId]") =>
        LET tokenId == response.request.tokenId[1]
            hue == response.body.stopColor[2]
        IN  /\ Hash(tokenId) = SpecFold(0, tokenId)
            /\ hue = SpecHue(SpecFold(0, tokenId))
            /\ hue \in 0 .. 359
            /\ Len(response.body.pattern) = 3 + (AbsOf5(SpecFold(0, tokenId)))

\* the image of a token ID whose hash is -2^31 was served, after the image
\* of a token ID whose hash is negative
C26_Witness ==
    /\ response.endpoint = "image/[tokenId]"
    /\ response.request.tokenId[1] = <<"G", "y", "d", "Z", "G", "_">>
    /\ Hash(response.request.tokenId[1]) = (-2147483647) - 1
    /\ response.body.stopColor[2] = 128
    /\ \E p \in served : Hash(p[1]) < 0 /\ Hash(p[1]) > -2147483647

(***************************************************************************)
(* C27: token conservation.  Every ID handed out by a mint has exactly one *)
(* owner, an account's balance is the number of IDs it owns, and the       *)
(* balances add up to totalSupply(); a mint raises the sum by one and a    *)
(* transfer leaves it as it was.                                           *)
(***************************************************************************)
OwnedBy(account) == {tokenId \in 1 .. totalSupply : _ownerOf(tokenId) = account}

RECURSIVE SumOfBalances(_)
SumOfBalances(accounts) ==
    IF accounts = {} THEN 0
    ELSE LET account == CHOOSE a \in accounts : TRUE
         IN  balanceOf(account).ret + SumOfBalances(accounts \ {account})

TransferCalled ==
    /\ last'.op \in {"transferFrom", "safeTransferFrom"}
    /\ Len(stack') >= Len(stack)

\* C27: each minted ID has one owner, balanceOf counts the IDs owned, the
\* balances sum to totalSupply(); mint adds one to the sum, transfer none
\* (the sum is a function of _balances: a transfer that leaves _balances as
\* it was has left the sum as it was)
C27_TokenConservation ==
    /\ [](/\ \A tokenId \in 1 .. totalSupply : _ownerOf(tokenId) \in Addr
          /\ \A tokenId \in DOMAIN _owners :
                _owners[tokenId] # ZeroAddress => IsMinted(tokenId)
          /\ \A account \in Addr :
                balanceOf(account).ret = Cardinality(OwnedBy(account))
          /\ SumOfBalances(Addr) = totalSupply)
    /\ [][/\ (MintCalled /\ last'.err \in {NoError, Pending}) =>
                SumOfBalances(Addr)' = SumOfBalances(Addr) + 1
          /\ (TransferCalled /\ _balances' # _balances) =>
                SumOfBalances(Addr)' = SumOfBalances(Addr)
         ]_vars

C27_Witness ==
    /\ stack = <<>>
    /\ totalSupply = 2
    /\ LastReturned("safeTransferFrom")
    /\ last.args[1] # last.args[2]
    /\ balanceOf(last.args[2]).ret = 2
    /\ \A tokenId \in 1 .. 2 : _ownerOf(tokenId) = last.args[2]

-----------------------------------------------------------------------------
(* C29 *)

-----------------------------------------------------------------------------
(* C30 *)

\* C30: for every name the deploy button accepts (its trimmed form is not
\* empty) generateNFTSymbol returns a symbol of at most 4 characters: no
\* deployment ends in the TypeError of generateNFTSymbol
C30_SymbolIsTotal ==
    /\ home.status # "Deployment failed: TypeError"
    /\ \A d \in sent : Len(d.symbol) <= 4
    /\ \A task \in BagToSet(tasks) :
          (task.op = "deploy" /\ task.pc \in {"switchNetwork", "deploy"}) =>
              /\ trim(task.nftName) # <<>>
              /\ ~generateNFTSymbol(task.nftName).threw
              /\ Len(generateNFTSymbol(task.nftName).value) <= 4

-----------------------------------------------------------------------------
(* C28 *)

\* the gallery fetches the tokenURI of a token of the deployed collection
GalleryFetches ==
    /\ Waiting
    /\ response' # NoRequest
    /\ response'.endpoint # "upload"

\* the request is a metadata request for token i of the deployed collection,
\* it is not answered with the 400 of a missing parameter, and the document
\* it is answered with names token i
AddressesToken(answer, i) ==
    /\ answer.endpoint = "metadata"
    /\ answer.request.contract = Some(DeployedAddress)
    /\ answer.request.tokenId = Some(Chars(toString(i)))
    /\ answer.status # 400
    /\ answer.status = 200 =>
          /\ answer.body.name = <<"MyNFT #">> \o Chars(toString(i))
          /\ answer.body.attributes[1] =
                [trait_type |-> "Token ID", value |-> Chars(toString(i))]

====
